---- MODULE Spec2Model ----
(***************************************************************************)
(* Worker-pool scheduler of flow2api: the token records kept by the       *)
(* TokenManager, the ConcurrencyManager (admission gate), the             *)
(* LoadBalancer's selection, the health/ban state machine, the hourly     *)
(* 429 un-ban task and the admin handlers that edit token records.        *)
(*                                                                         *)
(* src/main.py and src/api/admin.py are translated from the source.  The  *)
(* bodies of ConcurrencyManager, LoadBalancer, TokenManager and           *)
(* GenerationHandler are not among the source files; they are modelled    *)
(* from spec.md (sections 3, 4.2, 4.3, 4.4, 5), which is said at each      *)
(* definition.                                                             *)
(*                                                                         *)
(* Time is counted in ticks of 30 minutes (1800 s).                        *)
(***************************************************************************)
EXTENDS Integers, FiniteSets, Sequences, TLC

\* ------------------------------------------------------------------ bounds
NumWorkers == 2
NumRequests == 2
MaxStarted == 3
MaxAdminOps == 1
MaxTime == 4
MaxRetry == 1
MaxCredits == 2
MaxLimit == 2
MaxThreshold == 2
MaxExpirySteps == 6
MaxClockSteps == 3
MaxScanErrors == 1
NumAccounts == 2
MaxBatch == 2
MaxLogins == 3

\* _auto_refresh_st: page.goto timeout, wait after load, polls, wait per poll
\* (seconds)
GotoTimeout == 60
LoadWait == 3
MaxPolls == 24
PollWait == 5

MaxSweepErrors == 1
\* coroutines that call the captcha service concurrently
NumCallers == 2

MaxCalls == 3

\* ------------------------------------------------------- program constants
\* asyncio.sleep(3600) of auto_unban_task: 2 ticks of 30 minutes
SweepSleep == 2
\* "ban age >= 1 hour" (spec 4.3): 2 ticks of 30 minutes
BanAge == 2
\* concurrency limit -1 = unlimited (AddTokenRequest.image_concurrency default)
Unlimited == -1
\* credit balance not known
UnknownCredits == -1
\* no worker selected
NoWorker == 0
\* the worker was never rate-limit banned
NoBan == -1
\* auto_st_refresh_task: "time_until_expiry <= 7200", timedelta(hours=2)
RefreshBuffer == 7200
\* auto_st_refresh_task: asyncio.sleep(3600) when no expiry is tracked
FallbackSleep == 3600
\* auto_st_refresh_task: max(10, ...) seconds of sleep
MinSleep == 10
\* auto_st_refresh_task: asyncio.sleep(300) after a scan that raised
ErrorSleep == 300
\* auto_st_refresh_task: asyncio.sleep(5) after each thread it starts
DispatchDelay == 5
\* token.at_expires is None
NoExpiry == -1
\* next_refresh_time is None; no refresh thread started yet
NoTime == -1
Hour == 60 * 60
\* the refresh task's clock is observed every 30 minutes and at each wake
ClockStep == Hour \div 2
\* the lifetime of an access credential the identity service grants
AtLifetime == RefreshBuffer + ClockStep

\* the configured API key: no session token equals it (session tokens are
\* "admin-" followed by 32 random bytes)
ApiKey == 0
\* a session token the identity service rejects
InvalidSt == 0
\* no connection token is configured (plugin_config.connection_token empty)
NoToken == 0
\* the connection token, when one is configured
PluginToken == 1
\* a token that is not the connection token
OtherToken == 2

Max(a, b) == IF a >= b THEN a ELSE b
Min(a, b) == IF a <= b THEN a ELSE b

Workers == 1..NumWorkers
Requests == 1..NumRequests
Kinds == {"image", "video"}
Limits == Unlimited..MaxLimit
CreditValues == UnknownCredits..MaxCredits
Thresholds == 1..MaxThreshold
Outcomes == {"success", "error", "ratelimit", "timeout", "cancel"}
HealthStates == {"Healthy", "ErrorBanned", "RateLimited"}
Accounts == 1..NumAccounts
SessionTokens == Accounts \cup {InvalidSt}
Callers == 1..NumCallers
ExpiryValues == {h * ClockStep : h \in 0..MaxExpirySteps} \cup {NoExpiry}
MaxClock == MaxClockSteps * ClockStep

VARIABLES
    is_active,            \* token.is_active: the administrator's enabled flag
    kind_enabled,         \* token.image_enabled / token.video_enabled
    concurrency,          \* token.image_concurrency / token.video_concurrency
    credits,              \* token.credits
    use_count,            \* token.use_count (lifetime usage)
    error_count,          \* consecutive-error counter
    health,               \* Healthy / ErrorBanned / RateLimited
    banned_at,            \* tick of the last rate-limit ban (NoBan: never)
    error_ban_threshold,  \* admin_config.error_ban_threshold
    cm_limit,             \* ConcurrencyManager: limit per worker and kind
    in_flight,            \* ConcurrencyManager: permits held per worker and kind
    req,                  \* generation requests in progress
    now,                  \* current tick
    sweep_wake,           \* tick at which auto_unban_task's sleep ends
    started,              \* generation requests started so far
    admin_ops,            \* admin requests handled so far
    clock,                \* datetime.now() in seconds since the server started
    st,                   \* token.st: the refresh credential (its generation)
    at,                   \* token.at: the access credential (its generation)
    at_expires,           \* token.at_expires (NoExpiry: None)
    db_st,                \* the persisted row's st
    db_at,                \* the persisted row's at
    db_at_expires,        \* the persisted row's at_expires
    has_session,          \* browser_sessions/auth_<id>.json exists
    refresh_wake,         \* time at which auto_st_refresh_task's sleep ends
    next_refresh_time,    \* next_refresh_time of the last scan (NoTime: None)
    refreshing,           \* _auto_refresh_st threads running per worker
    dispatched_at,        \* start time of the worker's last refresh thread
    scan_errors,          \* scans that raised so far
    thread,               \* the _auto_refresh_st thread followed step by step
    cancelled,            \* the background tasks were cancelled at shutdown
    sweep_errors,         \* sweeps that raised so far
    service,              \* BrowserCaptchaService: class and instance attributes
    call,                 \* the calls on the service in progress, per caller
    present,              \* ids of the token records in the pool
    email,                \* token.email
    connection_token,     \* plugin_config.connection_token
    import_req,           \* the import_tokens request in progress
    plugin_req,           \* the plugin_update_token request in progress
    calls,                \* add, import and plugin requests received so far
    active_admin_tokens,  \* admin.py: active_admin_tokens
    issued,               \* session tokens generated so far
    admin_password,       \* the administrator's password
    admin_username,       \* the administrator's username
    api_key,              \* the API key of the generation endpoints
    http                  \* the last admin request and its response status

recordVars == <<is_active, kind_enabled, concurrency, credits, use_count>>
healthVars == <<error_count, health, banned_at>>
cmVars == <<cm_limit, in_flight>>
timeVars == <<now, sweep_wake>>
workerVars == <<recordVars, healthVars, error_ban_threshold, cmVars>>
credVars == <<st, at, at_expires, db_st, db_at, db_at_expires>>
captchaVars == <<service, call>>
taskVars == <<thread, cancelled, sweep_errors, captchaVars>>
refreshVars == <<clock, has_session, refresh_wake, next_refresh_time,
                 refreshing, dispatched_at, scan_errors, taskVars>>
\* what the generation path, the ban sweep and the flag handlers leave alone
poolVars == <<present, email, connection_token, import_req, plugin_req,
              calls>>
authVars == <<active_admin_tokens, issued, admin_username, admin_password, api_key, http>>
adminVars == <<poolVars, authVars>>
restVars == <<credVars, refreshVars, adminVars>>
vars == <<recordVars, healthVars, error_ban_threshold, cmVars, req, timeVars,
          started, admin_ops, restVars>>

\* ------------------------------------------------------------- requests
IdleRequest ==
    [pc |-> "idle", kind |-> "image", worker |-> NoWorker,
     outcome |-> "none", retries |-> 0]

\* ------------------------------------------------ startup (lifespan)
\* The token records the database holds when the server starts.
InitConcurrency ==
    [w \in Workers |->
        [k \in Kinds |->
            IF k = "image" THEN MaxLimit
            ELSE IF w = 1 THEN Unlimited ELSE 1]]

\* concurrency_manager.initialize(tokens): the manager takes each token's
\* limits from the list it is handed at startup; no permit is held.
initialize(tokens) ==
    [limit |-> [w \in Workers |-> [k \in Kinds |-> tokens[w][k]]],
     held  |-> [w \in Workers |-> [k \in Kinds |-> 0]]]

\* the request path's state at startup, the enabled flags as given
InitRequestPath(active) ==
    /\ is_active = active
    /\ kind_enabled = [w \in Workers |-> [k \in Kinds |-> TRUE]]
    /\ concurrency = InitConcurrency
    /\ credits = [w \in Workers |-> IF w = 1 THEN 1 ELSE UnknownCredits]
    /\ use_count = [w \in Workers |-> 0]
    /\ error_count = [w \in Workers |-> 0]
    /\ health = [w \in Workers |-> "Healthy"]
    /\ banned_at = [w \in Workers |-> NoBan]
    /\ error_ban_threshold = MaxThreshold
    /\ cm_limit = initialize(InitConcurrency).limit
    /\ in_flight = initialize(InitConcurrency).held
    /\ req = [r \in Requests |-> IdleRequest]
    /\ now = 0
    /\ sweep_wake = SweepSleep
    /\ started = 0
    /\ admin_ops = 0

\* no refresh thread runs and no scan has been made at startup
IdleThread ==
    [pc |-> "idle", token_id |-> NoWorker, polls |-> 0, st_value |-> FALSE,
     elapsed |-> 0, result |-> "none"]

\* no caller has asked for the captcha service yet; personal: the class is
\* the one of browser_captcha_personal.py
NoInstance == 0
NoBrowser == 0
NoCaller == 0
\* os.path.join(os.getcwd(), "browser_data")
DefaultDir == 0
IdleCall ==
    [op |-> "none", pc |-> "idle", result |-> "none", inst |-> NoInstance,
     dir |-> DefaultDir]
InitCaptcha(personal) ==
    /\ service = [personal |-> personal, _instance |-> NoInstance,
                  constructed |-> 0, _lock |-> NoCaller,
                  _initialized |-> FALSE, browser |-> NoBrowser,
                  launches |-> 0, user_data_dir |-> DefaultDir, pages |-> {}]
    /\ call = [c \in Callers |-> IdleCall]

InitScheduler ==
    /\ thread = IdleThread
    /\ cancelled = FALSE
    /\ sweep_errors = 0
    /\ clock = 0
    /\ refresh_wake = 0
    /\ next_refresh_time = NoTime
    /\ refreshing = [w \in Workers |-> 0]
    /\ dispatched_at = [w \in Workers |-> NoTime]
    /\ scan_errors = 0

InitRefresh == InitScheduler /\ InitCaptcha(FALSE)

\* the rows the database holds at startup are the records in memory
InitCredentials(expiries) ==
    /\ st = [w \in Workers |-> 0]
    /\ at = [w \in Workers |-> 0]
    /\ at_expires = expiries
    /\ db_st = [w \in Workers |-> 0]
    /\ db_at = [w \in Workers |-> 0]
    /\ db_at_expires = expiries

\* no admin is logged in; no request has been made
NoRequest == [endpoint |-> "none", arg |-> 0, status |-> 0]
InitAuth ==
    /\ active_admin_tokens = {}
    /\ issued = 0
    /\ admin_password = 1
    /\ admin_username = 1
    /\ api_key = ApiKey
    /\ http = NoRequest

\* no import_tokens / plugin_update_token request is being handled
IdleImport ==
    [pc |-> "idle", items |-> <<>>, existing |-> NoWorker, n |-> 0,
     added |-> 0, updated |-> 0, errors |-> 0]
IdlePlugin == [pc |-> "idle", st |-> InvalidSt, existing |-> NoWorker]

\* the pool holds the records p, one account each
InitPool(p, token) ==
    /\ present = p
    /\ email = [w \in Workers |-> w]
    /\ connection_token = token
    /\ import_req = IdleImport
    /\ plugin_req = IdlePlugin
    /\ calls = 0

Init ==
    /\ InitRequestPath([w \in Workers |-> TRUE])
    /\ InitCredentials([w \in Workers |-> AtLifetime])
    /\ InitRefresh
    /\ InitPool(Workers, NoToken)
    /\ InitAuth
    /\ has_session = [w \in Workers |-> FALSE]

\* ------------------------------------------- AdmissionController (4.2)
\* acquire's check: capacity exists under the limit the manager holds.
CanAcquire(w, k) ==
    \/ cm_limit[w][k] < 0
    \/ in_flight[w][k] < cm_limit[w][k]

\* the counters after a permit is taken
acquire(held, w, k) ==
    [held EXCEPT ![w][k] = @ + 1]

\* release as a reset of the counter instead of a decrement
release_reset(held, w, k) ==
    [held EXCEPT ![w][k] = 0]

\* the counters after a permit is given back: one less, never negative
release(held, w, k) ==
    [held EXCEPT ![w][k] = IF @ > 0 THEN @ - 1 ELSE 0]

\* --------------------------------------------------- LoadBalancer (4.4)
\* eligibility that forgets the ban state
Eligible_ignoresBan(w, k) ==
    /\ is_active[w]
    /\ kind_enabled[w][k]
    /\ concurrency[w][k] # 0
    /\ (concurrency[w][k] < 0 \/ in_flight[w][k] < concurrency[w][k])
    /\ (credits[w] > 0 \/ credits[w] = UnknownCredits)

\* Eligibility of worker w for kind k (section 3).
Eligible(w, k) ==
    /\ is_active[w]
    /\ kind_enabled[w][k]
    /\ health[w] = "Healthy"
    /\ concurrency[w][k] # 0
    /\ (concurrency[w][k] < 0 \/ in_flight[w][k] < concurrency[w][k])
    /\ (credits[w] > 0 \/ credits[w] = UnknownCredits)

EligibleSet(k) == {w \in Workers : Eligible(w, k)}

\* load ratio in_flight/limit as numerator and denominator; unlimited = 0/1
LoadNum(w, k) == IF concurrency[w][k] < 0 THEN 0 ELSE in_flight[w][k]
LoadDen(w, k) == IF concurrency[w][k] < 0 THEN 1 ELSE concurrency[w][k]

LoadLess(a, b, k) == LoadNum(a, k) * LoadDen(b, k) < LoadNum(b, k) * LoadDen(a, k)
LoadEqual(a, b, k) == LoadNum(a, k) * LoadDen(b, k) = LoadNum(b, k) * LoadDen(a, k)

\* ranking that looks at the credit balance before the load
Better_creditsFirst(a, b, k) ==
    \/ credits[a] > credits[b]
    \/ /\ credits[a] = credits[b]
       /\ LoadLess(a, b, k)
    \/ /\ credits[a] = credits[b]
       /\ LoadEqual(a, b, k)
       /\ use_count[a] < use_count[b]

\* a ranks strictly above b: lower load, then higher credits, then lower use
Better(a, b, k) ==
    \/ LoadLess(a, b, k)
    \/ /\ LoadEqual(a, b, k)
       /\ credits[a] > credits[b]
    \/ /\ LoadEqual(a, b, k)
       /\ credits[a] = credits[b]
       /\ use_count[a] < use_count[b]

\* selection that falls back to any enabled worker when none is eligible
select_fallback(k) ==
    IF EligibleSet(k) = {}
      THEN {w \in Workers : is_active[w] /\ health[w] = "Healthy"}
      ELSE {w \in EligibleSet(k) : \A v \in EligibleSet(k) : ~Better(v, w, k)}

\* select(kind): the top-ranked eligible workers; empty = NoEligibleWorker
select(k) ==
    {w \in EligibleSet(k) : \A v \in EligibleSet(k) : ~Better(v, w, k)}

\* --------------------------------------------------- HealthTracker (4.3)
\* a failed, non-rate-limit outcome counts towards the error ban
IsFailure(o) == o = "error"

\* error counter that a success does not reset
ErrorCountAfter_noReset(w, o) ==
    IF IsFailure(o) /\ health[w] = "Healthy" THEN error_count[w] + 1
    ELSE error_count[w]

\* error counter of w after outcome o is recorded
ErrorCountAfter(w, o) ==
    IF o = "success" THEN 0
    ELSE IF IsFailure(o) /\ health[w] = "Healthy" THEN error_count[w] + 1
    ELSE error_count[w]

\* health state of w after outcome o is recorded
HealthAfter(w, o) ==
    IF o = "ratelimit" /\ health[w] \in {"Healthy", "ErrorBanned"}
        THEN "RateLimited"
    ELSE IF IsFailure(o) /\ health[w] = "Healthy"
            /\ error_count[w] + 1 >= error_ban_threshold
        THEN "ErrorBanned"
    ELSE health[w]

\* recordOutcome(id, outcome)
recordOutcome(w, o) ==
    /\ error_count' = [error_count EXCEPT ![w] = ErrorCountAfter(w, o)]
    /\ health' = [health EXCEPT ![w] = HealthAfter(w, o)]
    /\ banned_at' = [banned_at EXCEPT ![w] =
            IF HealthAfter(w, o) = "RateLimited" /\ health[w] # "RateLimited"
                THEN now ELSE @]
    /\ use_count' = [use_count EXCEPT ![w] =
            IF o = "success" THEN @ + 1 ELSE @]

\* sweep that lifts every rate-limit ban, whatever its age
Unbannable_anyAge(w) == health[w] = "RateLimited"

\* sweep that lifts every ban of age >= 1 hour, error bans included
Unbannable_anyBan(w) ==
    health[w] # "Healthy" /\ now - banned_at[w] >= BanAge

\* token_manager.auto_unban_429_tokens(): a rate-limit ban of age >= 1 hour
\* is lifted and the error counter cleared
Unbannable(w) == health[w] = "RateLimited" /\ now - banned_at[w] >= BanAge

auto_unban_429_tokens ==
    /\ health' = [w \in Workers |->
            IF Unbannable(w) THEN "Healthy" ELSE health[w]]
    /\ error_count' = [w \in Workers |->
            IF Unbannable(w) THEN 0 ELSE error_count[w]]
    /\ banned_at' = banned_at

\* ------------------------------------------- GenerationHandler (2, 5)
\* the outcome bucket an exit path of the upstream call falls into
\* (section 6); a cancelled request records no outcome
Bucket(o) ==
    IF o = "timeout" THEN "error" ELSE o

\* LoadBalancer.select(kind) for request r: a top-ranked worker, or the
\* ordinary result NoEligibleWorker
Selecting(r, k, retries) ==
    IF select(k) = {}
      THEN req' = [req EXCEPT ![r] =
                [IdleRequest EXCEPT !.pc = "rejected", !.kind = k]]
      ELSE \E w \in select(k) :
             req' = [req EXCEPT ![r] =
                [IdleRequest EXCEPT !.pc = "acquire", !.kind = k,
                                    !.worker = w, !.retries = retries]]

\* a generation request of kind k arrives and a worker is selected for it
Start(r, k) ==
    /\ req[r].pc = "idle"
    /\ started < MaxStarted
    /\ Selecting(r, k, 0)
    /\ started' = started + 1
    /\ UNCHANGED restVars
    /\ UNCHANGED <<workerVars, timeVars, admin_ops>>

\* selection is retried after the selected worker's last slot was taken
SelectStep(r) ==
    /\ req[r].pc = "select"
    /\ Selecting(r, req[r].kind, req[r].retries)
    /\ UNCHANGED restVars
    /\ UNCHANGED <<workerVars, timeVars, started, admin_ops>>

\* AdmissionController.acquire(worker, kind): a permit, or an immediate
\* rejection after which selection is retried at most MaxRetry times
AcquireStep(r) ==
    /\ req[r].pc = "acquire"
    /\ LET w == req[r].worker
           k == req[r].kind
       IN IF CanAcquire(w, k)
            THEN /\ in_flight' = acquire(in_flight, w, k)
                 /\ req' = [req EXCEPT ![r].pc = "upstream", ![r].retries = 0]
            ELSE /\ in_flight' = in_flight
                 /\ req' = [req EXCEPT ![r] =
                        IF req[r].retries < MaxRetry
                          THEN [IdleRequest EXCEPT !.pc = "select", !.kind = k,
                                    !.retries = req[r].retries + 1]
                          ELSE [IdleRequest EXCEPT !.pc = "rejected", !.kind = k]]
    /\ UNCHANGED restVars
    /\ UNCHANGED <<recordVars, healthVars, error_ban_threshold, cm_limit,
                   timeVars, started, admin_ops>>

\* release on the paths that return an outcome only: a cancelled request
\* keeps its permit
ReleaseStep_leaksOnCancel(r, o) ==
    /\ req[r].pc = "upstream"
    /\ in_flight' = IF o = "cancel" THEN in_flight
                    ELSE release(in_flight, req[r].worker, req[r].kind)
    /\ req' = [req EXCEPT ![r] =
            IF o = "cancel" THEN IdleRequest
            ELSE [IdleRequest EXCEPT !.pc = "record", !.worker = req[r].worker,
                                     !.outcome = Bucket(o)]]
    /\ UNCHANGED restVars
    /\ UNCHANGED <<recordVars, healthVars, error_ban_threshold, cm_limit,
                   timeVars, started, admin_ops>>

\* the upstream call ends on exit path o and the permit is released
\* (AdmissionController.release, on every exit path)
ReleaseStep(r, o) ==
    /\ req[r].pc = "upstream"
    /\ in_flight' = release(in_flight, req[r].worker, req[r].kind)
    /\ req' = [req EXCEPT ![r] =
            IF o = "cancel" THEN IdleRequest
            ELSE [IdleRequest EXCEPT !.pc = "record", !.worker = req[r].worker,
                                     !.outcome = Bucket(o)]]
    /\ UNCHANGED restVars
    /\ UNCHANGED <<recordVars, healthVars, error_ban_threshold, cm_limit,
                   timeVars, started, admin_ops>>

\* HealthTracker.record(outcome)
RecordStep(r) ==
    /\ req[r].pc = "record"
    /\ recordOutcome(req[r].worker, req[r].outcome)
    /\ req' = [req EXCEPT ![r] = IdleRequest]
    /\ UNCHANGED restVars
    /\ UNCHANGED <<is_active, kind_enabled, concurrency, credits,
                   error_ban_threshold, cmVars, timeVars, started, admin_ops>>

\* NoEligibleWorker is answered to the caller
Respond(r) ==
    /\ req[r].pc = "rejected"
    /\ req' = [req EXCEPT ![r] = IdleRequest]
    /\ UNCHANGED restVars
    /\ UNCHANGED <<workerVars, timeVars, started, admin_ops>>

\* ------------------------------------------------------ background tasks
\* auto_unban_task: sleep(3600), then the sweep; the loop sleeps again
auto_unban_task ==
    /\ ~cancelled
    /\ now >= sweep_wake
    /\ auto_unban_429_tokens
    /\ sweep_wake' = now + SweepSleep
    /\ UNCHANGED restVars
    /\ UNCHANGED <<recordVars, error_ban_threshold, cmVars, req, now,
                   started, admin_ops>>

\* an exception in a sweep ends the timer
auto_unban_task_error_endsTimer ==
    /\ ~cancelled
    /\ now >= sweep_wake
    /\ sweep_errors < MaxSweepErrors
    /\ sweep_errors' = sweep_errors + 1
    /\ cancelled' = TRUE
    /\ UNCHANGED <<workerVars, req, timeVars, started, admin_ops, credVars,
                   clock, has_session, refresh_wake, next_refresh_time,
                   refreshing, dispatched_at, scan_errors, thread,
                   captchaVars, adminVars>>

\* a sweep that raises: the exception is printed and the loop sleeps again
auto_unban_task_error ==
    /\ ~cancelled
    /\ now >= sweep_wake
    /\ sweep_errors < MaxSweepErrors
    /\ sweep_errors' = sweep_errors + 1
    /\ sweep_wake' = now + SweepSleep
    /\ UNCHANGED <<workerVars, req, now, started, admin_ops, credVars, clock,
                   has_session, refresh_wake, next_refresh_time, refreshing,
                   dispatched_at, scan_errors, thread, cancelled,
                   captchaVars, adminVars>>

\* 30 minutes pass; a due timer fires before time moves on
Tick ==
    /\ now < MaxTime
    /\ now < sweep_wake
    /\ now' = now + 1
    /\ UNCHANGED restVars
    /\ UNCHANGED <<workerVars, req, sweep_wake, started, admin_ops>>

\* --------------------------------------------------------- admin handlers
\* UpdateTokenRequest: the optional fields a PUT /api/tokens/{id} may carry
\* (a field that is absent is None and leaves the record's value)
UpdateTokenRequests ==
    {[image_concurrency |-> l] : l \in Limits}
        \cup {[video_concurrency |-> l] : l \in Limits}
        \cup {[image_enabled |-> b] : b \in BOOLEAN}
        \cup {[video_enabled |-> b] : b \in BOOLEAN}

Provided(request, field, old) ==
    IF field \in DOMAIN request THEN request[field] ELSE old

\* a credential no record has held yet
NextCredential(w) ==
    1 + Max(Max(st[w], db_st[w]), Max(at[w], db_at[w]))

\* flow_client.st_to_at(st)'s "expires": now + the lifetime the identity
\* service grants
st_to_at_expires == clock + AtLifetime

\* at_expires=None leaves the stored expiry
Provided_expires(old) ==
    IF st_to_at_expires # NoExpiry THEN st_to_at_expires ELSE old

\* token_manager.update_token(token_id, ...): the fields given are stored,
\* in the record and in its row
StoreUpdate(w, request) ==
    /\ st' = [st EXCEPT ![w] = NextCredential(w)]
    /\ at' = [at EXCEPT ![w] = NextCredential(w)]
    /\ at_expires' = [at_expires EXCEPT ![w] = Provided_expires(@)]
    /\ db_st' = [db_st EXCEPT ![w] = NextCredential(w)]
    /\ db_at' = [db_at EXCEPT ![w] = NextCredential(w)]
    /\ db_at_expires' = [db_at_expires EXCEPT ![w] = Provided_expires(@)]
    /\ concurrency' = [concurrency EXCEPT
            ![w]["image"] = Provided(request, "image_concurrency", @),
            ![w]["video"] = Provided(request, "video_concurrency", @)]
    /\ kind_enabled' = [kind_enabled EXCEPT
            ![w]["image"] = Provided(request, "image_enabled", @),
            ![w]["video"] = Provided(request, "video_enabled", @)]

\* an update that stores what it was given before the exchange is made
update_token_storesUnchecked(w, request, st_valid) ==
    /\ admin_ops < MaxAdminOps
    /\ admin_ops' = admin_ops + 1
    /\ StoreUpdate(w, request)
    /\ UNCHANGED <<refreshVars, adminVars>>
    /\ UNCHANGED <<is_active, credits, use_count, healthVars,
                   error_ban_threshold, cmVars, req, timeVars, started>>

\* PUT /api/tokens/{token_id}: st_to_at first; when it raises the handler
\* answers 500 and nothing is stored
update_token(w, request, st_valid) ==
    /\ admin_ops < MaxAdminOps
    /\ admin_ops' = admin_ops + 1
    /\ IF st_valid
         THEN StoreUpdate(w, request)
         ELSE UNCHANGED <<concurrency, kind_enabled, credVars>>
    /\ UNCHANGED <<refreshVars, adminVars>>
    /\ UNCHANGED <<is_active, credits, use_count, healthVars,
                   error_ban_threshold, cmVars, req, timeVars, started>>

\* POST /api/tokens/{token_id}/enable: the administrator re-enables the
\* worker; an error ban is lifted
enable_token(w) ==
    /\ admin_ops < MaxAdminOps
    /\ admin_ops' = admin_ops + 1
    /\ is_active' = [is_active EXCEPT ![w] = TRUE]
    /\ health' = [health EXCEPT ![w] =
            IF @ = "ErrorBanned" THEN "Healthy" ELSE @]
    /\ error_count' = [error_count EXCEPT ![w] =
            IF health[w] = "ErrorBanned" THEN 0 ELSE @]
    /\ UNCHANGED restVars
    /\ UNCHANGED <<kind_enabled, concurrency, credits, use_count, banned_at,
                   error_ban_threshold, cmVars, req, timeVars, started>>

\* POST /api/tokens/{token_id}/disable
disable_token(w) ==
    /\ admin_ops < MaxAdminOps
    /\ admin_ops' = admin_ops + 1
    /\ is_active' = [is_active EXCEPT ![w] = FALSE]
    /\ UNCHANGED restVars
    /\ UNCHANGED <<kind_enabled, concurrency, credits, use_count, healthVars,
                   error_ban_threshold, cmVars, req, timeVars, started>>

\* POST /api/tokens/{token_id}/refresh-credits: the balance read upstream
refresh_credits(w, c) ==
    /\ admin_ops < MaxAdminOps
    /\ admin_ops' = admin_ops + 1
    /\ credits' = [credits EXCEPT ![w] = c]
    /\ UNCHANGED restVars
    /\ UNCHANGED <<is_active, kind_enabled, concurrency, use_count,
                   healthVars, error_ban_threshold, cmVars, req, timeVars,
                   started>>

\* POST /api/admin/config: error_ban_threshold
update_admin_config(t) ==
    /\ admin_ops < MaxAdminOps
    /\ admin_ops' = admin_ops + 1
    /\ error_ban_threshold' = t
    /\ UNCHANGED restVars
    /\ UNCHANGED <<recordVars, healthVars, cmVars, req, timeVars, started>>

\* ----------------------------------------------- RefreshScheduler (4.5)
\* the orders in which get_all_tokens() may list the workers
ScanOrders ==
    {order \in [1..NumWorkers -> Workers] :
        \A i, j \in 1..NumWorkers : order[i] = order[j] => i = j}

\* a scan that enqueues every due worker, with a cached session or not
RECURSIVE ScanFrom_ignoresSession(_, _, _, _)
ScanFrom_ignoresSession(order, i, next, to_refresh) ==
    IF i > Len(order)
      THEN [next_refresh_time |-> next, tokens_to_refresh |-> to_refresh]
    ELSE LET w == order[i] IN
      IF ~is_active[w] \/ at_expires[w] = NoExpiry
        THEN ScanFrom_ignoresSession(order, i + 1, next, to_refresh)
      ELSE IF at_expires[w] - clock <= RefreshBuffer
        THEN ScanFrom_ignoresSession(order, i + 1, next, Append(to_refresh, w))
      ELSE IF next = NoTime \/ at_expires[w] < next
        THEN ScanFrom_ignoresSession(order, i + 1,
                                     at_expires[w] - RefreshBuffer, to_refresh)
      ELSE ScanFrom_ignoresSession(order, i + 1, next, to_refresh)

\* a scan that looks at disabled workers too
RECURSIVE ScanFrom_scansDisabled(_, _, _, _)
ScanFrom_scansDisabled(order, i, next, to_refresh) ==
    IF i > Len(order)
      THEN [next_refresh_time |-> next, tokens_to_refresh |-> to_refresh]
    ELSE LET w == order[i] IN
      IF at_expires[w] = NoExpiry
        THEN ScanFrom_scansDisabled(order, i + 1, next, to_refresh)
      ELSE IF at_expires[w] - clock <= RefreshBuffer
        THEN ScanFrom_scansDisabled(order, i + 1, next,
                      IF has_session[w] THEN Append(to_refresh, w)
                      ELSE to_refresh)
      ELSE IF next = NoTime \/ at_expires[w] < next
        THEN ScanFrom_scansDisabled(order, i + 1,
                                    at_expires[w] - RefreshBuffer, to_refresh)
      ELSE ScanFrom_scansDisabled(order, i + 1, next, to_refresh)

\* the "for token in tokens" loop of a scan, from position i on
RECURSIVE ScanFrom(_, _, _, _)
ScanFrom(order, i, next, to_refresh) ==
    IF i > Len(order)
      THEN [next_refresh_time |-> next, tokens_to_refresh |-> to_refresh]
    ELSE LET w == order[i] IN
      IF ~is_active[w] \/ at_expires[w] = NoExpiry
        THEN ScanFrom(order, i + 1, next, to_refresh)
      ELSE IF at_expires[w] - clock <= RefreshBuffer
        THEN ScanFrom(order, i + 1, next,
                      IF has_session[w] THEN Append(to_refresh, w)
                      ELSE to_refresh)
      ELSE IF next = NoTime \/ at_expires[w] < next
        THEN ScanFrom(order, i + 1, at_expires[w] - RefreshBuffer, to_refresh)
      ELSE ScanFrom(order, i + 1, next, to_refresh)

\* a pass that starts all its threads at once
auto_st_refresh_task_noStagger(order) ==
    /\ clock >= refresh_wake
    /\ clock <= MaxClock
    /\ LET scan == ScanFrom(order, 1, NoTime, <<>>)
           tokens_to_refresh == scan.tokens_to_refresh
           sleep_seconds ==
               IF scan.next_refresh_time # NoTime
                 THEN Max(MinSleep, scan.next_refresh_time - clock)
                 ELSE FallbackSleep
       IN /\ refreshing' = [w \in Workers |->
                IF \E i \in DOMAIN tokens_to_refresh : tokens_to_refresh[i] = w
                  THEN refreshing[w] + 1 ELSE refreshing[w]]
          /\ dispatched_at' = [w \in Workers |->
                IF \E i \in DOMAIN tokens_to_refresh : tokens_to_refresh[i] = w
                  THEN clock ELSE dispatched_at[w]]
          /\ next_refresh_time' = scan.next_refresh_time
          /\ clock' = clock
          /\ refresh_wake' = clock + sleep_seconds
    /\ UNCHANGED <<adminVars, taskVars>>
    /\ UNCHANGED <<workerVars, req, timeVars, started, admin_ops, credVars,
                   has_session, scan_errors>>

\* one pass of auto_st_refresh_task's loop: scan, start a thread for each
\* token to refresh (5 seconds apart), compute the sleep and go to sleep
auto_st_refresh_task(order) ==
    /\ ~cancelled
    /\ clock >= refresh_wake
    /\ clock <= MaxClock
    /\ LET scan == ScanFrom(order, 1, NoTime, <<>>)
           tokens_to_refresh == scan.tokens_to_refresh
           after == clock + DispatchDelay * Len(tokens_to_refresh)
           sleep_seconds ==
               IF scan.next_refresh_time # NoTime
                 THEN Max(MinSleep, scan.next_refresh_time - after)
                 ELSE FallbackSleep
       IN /\ refreshing' = [w \in Workers |->
                IF \E i \in DOMAIN tokens_to_refresh : tokens_to_refresh[i] = w
                  THEN refreshing[w] + 1 ELSE refreshing[w]]
          /\ dispatched_at' = [w \in Workers |->
                IF \E i \in DOMAIN tokens_to_refresh : tokens_to_refresh[i] = w
                  THEN clock + DispatchDelay *
                        ((CHOOSE i \in DOMAIN tokens_to_refresh :
                              tokens_to_refresh[i] = w) - 1)
                  ELSE dispatched_at[w]]
          /\ next_refresh_time' = scan.next_refresh_time
          /\ clock' = after
          /\ refresh_wake' = after + sleep_seconds
    /\ UNCHANGED <<adminVars, taskVars>>
    /\ UNCHANGED <<workerVars, req, timeVars, started, admin_ops, credVars,
                   has_session, scan_errors>>

\* an exception in a scan ends the loop
auto_st_refresh_task_error_endsLoop ==
    /\ ~cancelled
    /\ clock >= refresh_wake
    /\ clock <= MaxClock
    /\ scan_errors < MaxScanErrors
    /\ scan_errors' = scan_errors + 1
    /\ cancelled' = TRUE
    /\ UNCHANGED <<workerVars, req, timeVars, started, admin_ops, credVars,
                   clock, has_session, refresh_wake, next_refresh_time,
                   refreshing, dispatched_at, thread, sweep_errors, captchaVars,
                   adminVars>>

\* a pass that raises (get_all_tokens fails): logged, asyncio.sleep(300)
auto_st_refresh_task_error ==
    /\ ~cancelled
    /\ clock >= refresh_wake
    /\ clock <= MaxClock
    /\ scan_errors < MaxScanErrors
    /\ scan_errors' = scan_errors + 1
    /\ refresh_wake' = clock + ErrorSleep
    /\ UNCHANGED <<adminVars, taskVars>>
    /\ UNCHANGED <<workerVars, req, timeVars, started, admin_ops, credVars,
                   clock, has_session, next_refresh_time,
                   refreshing, dispatched_at>>

\* how a refresh thread ends: new st and at, new st but st_to_at raised,
\* no session-token cookie within 120 seconds, or an exception
RefreshOutcomes == {"refreshed", "st_only", "no_st", "exception"}

\* a refresh thread that disables the worker when it obtained no new st
auto_refresh_st_disablesOnFailure(w, outcome) ==
    /\ refreshing[w] > 0
    /\ refreshing' = [refreshing EXCEPT ![w] = @ - 1]
    /\ db_st' = [db_st EXCEPT ![w] =
            IF outcome \in {"refreshed", "st_only"}
              THEN NextCredential(w) ELSE @]
    /\ db_at' = [db_at EXCEPT ![w] =
            IF outcome = "refreshed" THEN NextCredential(w) ELSE @]
    /\ db_at_expires' = [db_at_expires EXCEPT ![w] =
            IF outcome = "refreshed" THEN Provided_expires(@) ELSE @]
    /\ is_active' = [is_active EXCEPT ![w] =
            IF outcome \in {"no_st", "exception"} THEN FALSE ELSE @]
    /\ UNCHANGED <<adminVars, taskVars>>
    /\ UNCHANGED <<kind_enabled, concurrency, credits, use_count, healthVars,
                   error_ban_threshold, cmVars, req, timeVars, started,
                   admin_ops, st, at, at_expires, clock, has_session,
                   refresh_wake, next_refresh_time, dispatched_at,
                   scan_errors>>

\* a thread that forgets the expiry when the exchange fails
auto_refresh_st_dropsExpiry(w, outcome) ==
    /\ refreshing[w] > 0
    /\ refreshing' = [refreshing EXCEPT ![w] = @ - 1]
    /\ db_st' = [db_st EXCEPT ![w] =
            IF outcome \in {"refreshed", "st_only"}
              THEN NextCredential(w) ELSE @]
    /\ db_at' = [db_at EXCEPT ![w] =
            IF outcome = "refreshed" THEN NextCredential(w) ELSE @]
    /\ db_at_expires' = [db_at_expires EXCEPT ![w] =
            IF outcome = "refreshed" THEN Provided_expires(@)
            ELSE IF outcome = "st_only" THEN NoExpiry ELSE @]
    /\ UNCHANGED <<adminVars, taskVars>>
    /\ UNCHANGED <<workerVars, req, timeVars, started, admin_ops, st, at,
                   at_expires, clock, has_session, refresh_wake,
                   next_refresh_time, dispatched_at, scan_errors>>

\* _auto_refresh_st(token_id, ...) runs to its end: what it obtained is
\* written with db.update_token
auto_refresh_st(w, outcome) ==
    /\ refreshing[w] > 0
    /\ refreshing' = [refreshing EXCEPT ![w] = @ - 1]
    /\ db_st' = [db_st EXCEPT ![w] =
            IF outcome \in {"refreshed", "st_only"}
              THEN NextCredential(w) ELSE @]
    /\ db_at' = [db_at EXCEPT ![w] =
            IF outcome = "refreshed" THEN NextCredential(w) ELSE @]
    /\ db_at_expires' = [db_at_expires EXCEPT ![w] =
            IF outcome = "refreshed" THEN Provided_expires(@) ELSE @]
    /\ UNCHANGED <<adminVars, taskVars>>
    /\ UNCHANGED <<workerVars, req, timeVars, started, admin_ops, st, at,
                   at_expires, clock, has_session, refresh_wake,
                   next_refresh_time, dispatched_at, scan_errors>>

\* time passes while the refresh task sleeps; it wakes when the sleep ends
RefreshTick ==
    /\ clock < refresh_wake
    /\ clock < MaxClock
    /\ clock' = Min(clock + ClockStep, refresh_wake)
    /\ UNCHANGED <<adminVars, taskVars>>
    /\ UNCHANGED <<workerVars, req, timeVars, started, admin_ops, credVars,
                   has_session, refresh_wake, next_refresh_time,
                   refreshing, dispatched_at, scan_errors>>

\* the pool the refresh task finds: any enabled flags, expiries and cached
\* sessions
RefreshInit ==
    /\ InitPool(Workers, NoToken)
    /\ InitAuth
    /\ \E active \in [Workers -> BOOLEAN] : InitRequestPath(active)
    /\ \E expiries \in [Workers -> ExpiryValues] : InitCredentials(expiries)
    /\ InitRefresh
    /\ has_session \in [Workers -> BOOLEAN]

\* a PUT /api/tokens/{id} that carries the new st and no optional field
CredentialsOnly == [project_id |-> "None"]

RefreshNext ==
    \/ \E order \in ScanOrders : auto_st_refresh_task(order)
    \/ auto_st_refresh_task_error
    \/ \E w \in Workers, outcome \in RefreshOutcomes : auto_refresh_st(w, outcome)
    \/ RefreshTick
    \/ \E w \in Workers, st_valid \in BOOLEAN :
            update_token(w, CredentialsOnly, st_valid)

RefreshSpec == RefreshInit /\ [][RefreshNext]_vars

\* pools in which a worker may be the minimum sleep short of its refresh
\* time: expiries past, refreshBuffer + 10 s away, or a full lifetime away
OverlapInit ==
    /\ InitPool(Workers, NoToken)
    /\ InitAuth
    /\ InitRequestPath([w \in Workers |-> TRUE])
    /\ \E expiries \in [Workers -> {0, RefreshBuffer + MinSleep, AtLifetime}] :
            InitCredentials(expiries)
    /\ InitRefresh
    /\ has_session \in [Workers -> BOOLEAN]

OverlapSpec == OverlapInit /\ [][RefreshNext]_vars

\* ------------------------------------------- the refresh thread, step by step
\* the longest the thread waits: page load, wait after load, every poll
Budget == GotoTimeout + LoadWait + MaxPolls * PollWait

\* how long page.goto may take before it returns or times out
GotoTimes == {1, GotoTimeout - 1, GotoTimeout}

threadRest ==
    <<workerVars, req, timeVars, started, admin_ops, st, at, at_expires,
      clock, has_session, refresh_wake, next_refresh_time, dispatched_at,
      scan_errors, cancelled, sweep_errors, captchaVars, present, email,
      connection_token, import_req, plugin_req, authVars>>

\* the thread ends: nothing of its state is kept but what it logged
Ended(result) ==
    /\ thread' = [thread EXCEPT !.pc = "done", !.result = result]
    /\ refreshing' = [refreshing EXCEPT ![thread.token_id] = @ - 1]

\* run_refresh: thread.start() for a worker to refresh
run_refresh(w) ==
    /\ thread.pc \in {"idle", "done"}
    /\ calls < MaxCalls
    /\ has_session[w]
    /\ calls' = calls + 1
    /\ thread' = [IdleThread EXCEPT !.pc = "goto", !.token_id = w]
    /\ refreshing' = [refreshing EXCEPT ![w] = @ + 1]
    /\ UNCHANGED <<threadRest, db_st, db_at, db_at_expires>>

\* browser launch, page.goto, wait 3 s, click; a page that has not loaded
\* within the timeout raises, which the outer except logs
refresh_goto(d) ==
    /\ thread.pc = "goto"
    /\ IF d < GotoTimeout
         THEN /\ thread' = [thread EXCEPT !.pc = "poll",
                                          !.elapsed = d + LoadWait]
              /\ UNCHANGED refreshing
         ELSE /\ thread' = [thread EXCEPT !.pc = "done", !.elapsed = d,
                                          !.result = "exception"]
              /\ refreshing' = [refreshing EXCEPT ![thread.token_id] = @ - 1]
    /\ UNCHANGED <<threadRest, calls, db_st, db_at, db_at_expires>>

\* a poll that never stops asking for the cookie
refresh_poll_untilFound(found) ==
    /\ thread.pc = "poll"
    /\ thread' = [thread EXCEPT
            !.polls = @ + 1,
            !.elapsed = @ + PollWait,
            !.st_value = found,
            !.pc = IF found THEN "close" ELSE "poll"]
    /\ UNCHANGED <<threadRest, calls, refreshing, db_st, db_at, db_at_expires>>

\* one pass of "for _ in range(24)": wait 5 s, look for the session-token
\* cookie; the loop ends when it is found or after the 24th pass
refresh_poll(found) ==
    /\ thread.pc = "poll"
    /\ thread.polls < MaxPolls
    /\ thread' = [thread EXCEPT
            !.polls = @ + 1,
            !.elapsed = @ + PollWait,
            !.st_value = found,
            !.pc = IF found \/ thread.polls + 1 = MaxPolls
                     THEN "close" ELSE "poll"]
    /\ UNCHANGED <<threadRest, calls, refreshing, db_st, db_at, db_at_expires>>

\* storage_state, browser.close, playwright.stop; without a new st the
\* thread logs that none was obtained and ends
refresh_close ==
    /\ thread.pc = "close"
    /\ IF thread.st_value
         THEN /\ thread' = [thread EXCEPT !.pc = "store"]
              /\ UNCHANGED refreshing
         ELSE Ended("no_st")
    /\ UNCHANGED <<threadRest, calls, db_st, db_at, db_at_expires>>

\* db.update_token(st), st_to_at, db.update_token(at, at_expires); when the
\* exchange raises, the st stays stored and the failure is logged
refresh_store(exchanged) ==
    /\ thread.pc = "store"
    /\ LET w == thread.token_id IN
        /\ db_st' = [db_st EXCEPT ![w] = NextCredential(w)]
        /\ db_at' = [db_at EXCEPT ![w] =
                IF exchanged THEN NextCredential(w) ELSE @]
        /\ db_at_expires' = [db_at_expires EXCEPT ![w] =
                IF exchanged THEN Provided_expires(@) ELSE @]
    /\ Ended(IF exchanged THEN "refreshed" ELSE "st_only")
    /\ UNCHANGED <<threadRest, calls>>

\* an exception anywhere before the first write: logged by the outer
\* except, the thread ends
refresh_raise ==
    /\ thread.pc \in {"goto", "poll", "close", "store"}
    /\ Ended("exception")
    /\ UNCHANGED <<threadRest, calls, db_st, db_at, db_at_expires>>

\* a step of the running thread
ThreadStep ==
    \/ \E d \in GotoTimes : refresh_goto(d)
    \/ \E found \in BOOLEAN : refresh_poll(found)
    \/ refresh_close
    \/ \E exchanged \in BOOLEAN : refresh_store(exchanged)
    \/ refresh_raise

\* every worker is past its expiry and has a cached session
ThreadInit ==
    /\ InitRequestPath([w \in Workers |-> TRUE])
    /\ InitCredentials([w \in Workers |-> 0])
    /\ InitRefresh
    /\ InitPool(Workers, NoToken)
    /\ InitAuth
    /\ has_session = [w \in Workers |-> TRUE]

ThreadNext ==
    \/ \E w \in Workers : run_refresh(w)
    \/ \E d \in GotoTimes : refresh_goto(d)
    \/ \E found \in BOOLEAN : refresh_poll(found)
    \/ refresh_close
    \/ \E exchanged \in BOOLEAN : refresh_store(exchanged)
    \/ refresh_raise

\* asyncio.run drives the coroutine in its own thread: a step that can be
\* taken is taken (every awaited call returns or raises)
ThreadFairSpec ==
    ThreadInit /\ [][ThreadNext]_vars /\ WF_vars(ThreadStep)

\* ------------------------------------------------ the server's lifespan
\* lifespan, after the yield: both task handles are cancelled and awaited;
\* the tasks are at an await (a sleep or a call) and end there
shutdown ==
    /\ ~cancelled
    /\ cancelled' = TRUE
    /\ UNCHANGED <<workerVars, req, timeVars, started, admin_ops, credVars,
                   clock, has_session, refresh_wake, next_refresh_time,
                   refreshing, dispatched_at, scan_errors, thread, captchaVars,
                   sweep_errors, adminVars>>

\* the pool at startup: each worker past its expiry or a full lifetime from
\* it, with a cached session or without
LifespanInit ==
    /\ InitRequestPath([w \in Workers |-> TRUE])
    /\ \E expiries \in [Workers -> {0, AtLifetime}] :
            InitCredentials(expiries)
    /\ InitRefresh
    /\ InitPool(Workers, NoToken)
    /\ InitAuth
    /\ has_session \in [Workers -> BOOLEAN]

LifespanNext ==
    \/ auto_unban_task
    \/ auto_unban_task_error
    \/ Tick
    \/ \E order \in ScanOrders : auto_st_refresh_task(order)
    \/ auto_st_refresh_task_error
    \/ \E w \in Workers, outcome \in RefreshOutcomes :
            auto_refresh_st(w, outcome)
    \/ RefreshTick
    \/ shutdown

LifespanSpec == LifespanInit /\ [][LifespanNext]_vars

\* ------------------------------------------------------ WorkerStore (6)
\* the id the database gives the next record
NewId == CHOOSE w \in Workers \ present : \A v \in Workers \ present : w <= v

\* the record of account a, if the pool holds one
Existing(a) ==
    IF \E w \in present : email[w] = a
      THEN CHOOSE w \in present : email[w] = a
      ELSE NoWorker

\* the credentials of record w are replaced by freshly exchanged ones, in
\* the record and in its row
StoreCredentials(w) ==
    /\ st' = [st EXCEPT ![w] = NextCredential(w)]
    /\ at' = [at EXCEPT ![w] = NextCredential(w)]
    /\ at_expires' = [at_expires EXCEPT ![w] = Provided_expires(@)]
    /\ db_st' = [db_st EXCEPT ![w] = NextCredential(w)]
    /\ db_at' = [db_at EXCEPT ![w] = NextCredential(w)]
    /\ db_at_expires' = [db_at_expires EXCEPT ![w] = Provided_expires(@)]

\* the same with the expiry e the exchange returned
StoreExchanged(w, e) ==
    /\ st' = [st EXCEPT ![w] = NextCredential(w)]
    /\ at' = [at EXCEPT ![w] = NextCredential(w)]
    /\ at_expires' = [at_expires EXCEPT ![w] = e]
    /\ db_st' = [db_st EXCEPT ![w] = NextCredential(w)]
    /\ db_at' = [db_at EXCEPT ![w] = NextCredential(w)]
    /\ db_at_expires' = [db_at_expires EXCEPT ![w] = e]

\* token_manager.add_token(st, ...) with the request's defaults: a record
\* for the account the st resolves to, unless the account has one
\* (DuplicateAccount) or the exchange fails (InvalidCredential)
AddRecord(a) ==
    /\ present' = present \cup {NewId}
    /\ email' = [email EXCEPT ![NewId] = a]
    /\ is_active' = [is_active EXCEPT ![NewId] = TRUE]
    /\ kind_enabled' = [kind_enabled EXCEPT ![NewId] = [k \in Kinds |-> TRUE]]
    /\ concurrency' = [concurrency EXCEPT
                            ![NewId] = [k \in Kinds |-> Unlimited]]
    /\ credits' = [credits EXCEPT ![NewId] = UnknownCredits]
    /\ use_count' = [use_count EXCEPT ![NewId] = 0]
    /\ error_count' = [error_count EXCEPT ![NewId] = 0]
    /\ health' = [health EXCEPT ![NewId] = "Healthy"]
    /\ banned_at' = [banned_at EXCEPT ![NewId] = NoBan]
    /\ StoreCredentials(NewId)

\* the call raised: no record is created or changed
KeepRecords ==
    UNCHANGED <<present, email, recordVars, healthVars, credVars>>

\* an add that checks the exchange only, not the account
CanAdd_ignoresAccount(a) == a # InvalidSt

CanAdd(a) == a # InvalidSt /\ Existing(a) = NoWorker

add_token_record(a) ==
    IF CanAdd(a) THEN AddRecord(a) ELSE KeepRecords

\* POST /api/tokens: token_manager.add_token; ValueError -> 400, any other
\* exception -> 500
add_token(a) ==
    /\ calls < MaxCalls
    /\ calls' = calls + 1
    /\ CanAdd(a) => present # Workers
    /\ add_token_record(a)
    /\ \E status \in IF CanAdd(a) THEN {200} ELSE {400, 500} :
            http' = [endpoint |-> "add_token", arg |-> a, status |-> status]
    /\ UNCHANGED <<error_ban_threshold, cmVars, req, timeVars, started,
                   admin_ops, refreshVars, connection_token, import_req,
                   plugin_req, active_admin_tokens, issued, admin_username, admin_password,
                   api_key>>

\* the batches an import request may carry
Batches == UNION {[1..n -> SessionTokens] : n \in 1..MaxBatch}

\* the "expires" the exchange of an import item may return: one that has
\* passed, or now + the lifetime
ImportExpiries == {clock, st_to_at_expires}

\* is_expired = at_expires <= now
IsExpired(e) == e <= clock

\* token_manager.update_token(existing.id, st, at, at_expires, image_enabled,
\* video_enabled, image_concurrency, video_concurrency) with the item's
\* values (ImportTokenItem defaults), then disable_token when the credential
\* is expired; disabled: that call was made and did not raise
ImportUpdate(w, e, disabled) ==
    /\ StoreExchanged(w, e)
    /\ kind_enabled' = [kind_enabled EXCEPT ![w] = [k \in Kinds |-> TRUE]]
    /\ concurrency' = [concurrency EXCEPT ![w] = [k \in Kinds |-> Unlimited]]
    /\ is_active' = [is_active EXCEPT ![w] = IF disabled THEN FALSE ELSE @]
    /\ UNCHANGED <<present, email, credits, use_count, healthVars>>

\* add_token for the item, then disable_token when its credential is expired
ImportAdd(a, e, disabled) ==
    IF CanAdd(a)
      THEN /\ present' = present \cup {NewId}
           /\ email' = [email EXCEPT ![NewId] = a]
           /\ is_active' = [is_active EXCEPT ![NewId] = ~disabled]
           /\ kind_enabled' = [kind_enabled EXCEPT
                                    ![NewId] = [k \in Kinds |-> TRUE]]
           /\ concurrency' = [concurrency EXCEPT
                                    ![NewId] = [k \in Kinds |-> Unlimited]]
           /\ credits' = [credits EXCEPT ![NewId] = UnknownCredits]
           /\ use_count' = [use_count EXCEPT ![NewId] = 0]
           /\ error_count' = [error_count EXCEPT ![NewId] = 0]
           /\ health' = [health EXCEPT ![NewId] = "Healthy"]
           /\ banned_at' = [banned_at EXCEPT ![NewId] = NoBan]
           /\ StoreExchanged(NewId, e)
      ELSE KeepRecords

\* POST /api/tokens/import arrives: added = 0, updated = 0, errors = []
import_tokens(items) ==
    /\ calls < MaxCalls
    /\ calls' = calls + 1
    /\ import_req.pc = "idle"
    /\ import_req' = [pc |-> "check", items |-> items, existing |-> NoWorker,
                      n |-> Len(items), added |-> 0, updated |-> 0,
                      errors |-> 0]
    /\ KeepRecords
    /\ UNCHANGED <<error_ban_threshold, cmVars, req, timeVars, started,
                   admin_ops, refreshVars, connection_token, plugin_req,
                   authVars>>

\* one item, up to the lookup by email: st_to_at, then get_all_tokens; an
\* item with no st, a rejected st or no email is appended to errors and
\* skipped; after the last item the request is answered with the counts
ImportCheck ==
    /\ import_req.pc = "check"
    /\ import_req' =
        IF import_req.items = <<>> THEN IdleImport
        ELSE IF Head(import_req.items) = InvalidSt
          THEN [import_req EXCEPT !.items = Tail(@), !.errors = @ + 1]
        ELSE [import_req EXCEPT
                !.pc = "act", !.existing = Existing(Head(import_req.items))]
    /\ KeepRecords
    /\ UNCHANGED <<error_ban_threshold, cmVars, req, timeVars, started,
                   admin_ops, refreshVars, connection_token, plugin_req,
                   calls, authVars>>

\* the same item, from the lookup's answer on: update the record found, or
\* add one, and disable it when the credential is expired; then updated or
\* added is incremented. An exception raised by any of the calls
\* (disable_ok: disable_token did not raise) ends the item there: it is
\* appended to errors and the loop goes on
ImportAct ==
    /\ import_req.pc = "act"
    /\ import_req.existing = NoWorker /\ CanAdd(Head(import_req.items))
            => present # Workers
    /\ \E e \in ImportExpiries, disable_ok \in BOOLEAN :
        LET item == Head(import_req.items)
            w == import_req.existing
            raised == \/ w = NoWorker /\ ~CanAdd(item)
                      \/ IsExpired(e) /\ ~disable_ok
        IN  /\ IF w # NoWorker
                 THEN ImportUpdate(w, e, IsExpired(e) /\ disable_ok)
                 ELSE ImportAdd(item, e, IsExpired(e) /\ disable_ok)
            /\ import_req' =
                [import_req EXCEPT
                    !.pc = "check", !.items = Tail(@), !.existing = NoWorker,
                    !.updated = IF ~raised /\ w # NoWorker THEN @ + 1 ELSE @,
                    !.added = IF ~raised /\ w = NoWorker THEN @ + 1 ELSE @,
                    !.errors = IF raised THEN @ + 1 ELSE @]
    /\ UNCHANGED <<error_ban_threshold, cmVars, req, timeVars, started,
                   admin_ops, refreshVars, connection_token, plugin_req,
                   calls, authVars>>

\* the Authorization header of a plugin request: none, or a token with or
\* without the "Bearer " prefix
PluginHeaders ==
    {<<>>} \cup {<<p, t>> : p \in {"Bearer ", ""},
                            t \in {PluginToken, OtherToken}}

\* plugin_update_token: the token the header provides
provided_token(authorization) ==
    IF authorization = <<>> THEN NoToken ELSE authorization[2]

\* compares the tokens without asking whether one is configured
PluginAuthorized_emptyTokenMatches(authorization) ==
    provided_token(authorization) = connection_token

\* the connection token check of plugin_update_token
PluginAuthorized(authorization) ==
    /\ connection_token # NoToken
    /\ authorization # <<>>
    /\ provided_token(authorization) = connection_token

\* POST /api/plugin/update-token, up to the lookup by email: 401 unless the
\* connection token matches, 400 when the st is rejected
plugin_update_token(authorization, s) ==
    /\ calls < MaxCalls
    /\ calls' = calls + 1
    /\ plugin_req.pc = "idle"
    /\ plugin_req' =
        IF PluginAuthorized(authorization) /\ s # InvalidSt
          THEN [pc |-> "act", st |-> s, existing |-> Existing(s)]
          ELSE IdlePlugin
    /\ http' = [endpoint |-> "plugin_update_token",
                arg |-> provided_token(authorization),
                status |-> IF ~PluginAuthorized(authorization) THEN 401
                           ELSE IF s = InvalidSt THEN 400 ELSE 0]
    /\ KeepRecords
    /\ UNCHANGED <<error_ban_threshold, cmVars, req, timeVars, started,
                   admin_ops, refreshVars, connection_token, import_req,
                   active_admin_tokens, issued, admin_username, admin_password, api_key>>

\* the same request from the lookup's answer on: update_token(st, at,
\* at_expires) of the record found, or add_token
PluginAct ==
    /\ plugin_req.pc = "act"
    /\ plugin_req.existing = NoWorker /\ CanAdd(plugin_req.st)
            => present # Workers
    /\ IF plugin_req.existing # NoWorker
         THEN /\ StoreCredentials(plugin_req.existing)
              /\ UNCHANGED <<present, email, recordVars, healthVars>>
         ELSE add_token_record(plugin_req.st)
    /\ plugin_req' = IdlePlugin
    /\ http' = [endpoint |-> "plugin_update_token", arg |-> connection_token,
                status |-> IF plugin_req.existing # NoWorker
                              \/ CanAdd(plugin_req.st) THEN 200 ELSE 500]
    /\ UNCHANGED <<error_ban_threshold, cmVars, req, timeVars, started,
                   admin_ops, refreshVars, connection_token, import_req,
                   calls, active_admin_tokens, issued, admin_username, admin_password,
                   api_key>>

\* POST /api/plugin/config: the connection token of the request, or a
\* generated one when the request carries none
update_plugin_config(token) ==
    /\ calls < MaxCalls
    /\ calls' = calls + 1
    /\ IF token # NoToken
         THEN connection_token' = token
         ELSE connection_token' \in {PluginToken, OtherToken}
    /\ KeepRecords
    /\ UNCHANGED <<error_ban_threshold, cmVars, req, timeVars, started,
                   admin_ops, refreshVars, import_req, plugin_req, authVars>>

\* the pool the admin requests find: any records of distinct accounts, a
\* connection token configured or not
AdminInit ==
    /\ InitRequestPath([w \in Workers |-> TRUE])
    /\ InitCredentials([w \in Workers |-> AtLifetime])
    /\ InitRefresh
    /\ \E p \in SUBSET Workers, token \in {NoToken, PluginToken} :
            InitPool(p, token)
    /\ InitAuth
    /\ has_session = [w \in Workers |-> FALSE]

AdminNext ==
    \/ \E a \in SessionTokens : add_token(a)
    \/ \E w \in present, st_valid \in BOOLEAN :
            update_token(w, CredentialsOnly, st_valid)
    \/ \E items \in Batches : import_tokens(items)
    \/ ImportCheck
    \/ ImportAct
    \/ \E authorization \in PluginHeaders, s \in SessionTokens :
            plugin_update_token(authorization, s)
    \/ PluginAct
    \/ \E token \in {NoToken, PluginToken, OtherToken} :
            update_plugin_config(token)

AdminSpec == AdminInit /\ [][AdminNext]_vars

\* ------------------------------------------------------------ admin sessions
\* session tokens are "admin-" followed by 32 random bytes: each login issues
\* a value never issued before; the value MaxLogins + 1 is never issued.
\* API keys are values of another kind (not positive)
SessionValues == 1..(MaxLogins + 1)
RotatedApiKey == 0 - 1
ApiKeys == {ApiKey, RotatedApiKey}
Passwords == 1..2
Usernames == 1..2
\* the request carries no username
NoUsername == 0
\* ChangePasswordRequest.username: absent, or another name
NewUsernames == {NoUsername} \cup (Usernames \ {1})

\* the Authorization header of an admin request: none, or a value with the
\* "Bearer " prefix, another prefix or none
AdminHeaders ==
    {<<>>} \cup {<<p, t>> : p \in {"Bearer ", "Basic ", ""},
                            t \in SessionValues \cup ApiKeys}

\* authorization[7:]
bearer_token(authorization) ==
    IF authorization = <<>> THEN NoToken ELSE authorization[2]

\* accepts the API key of the generation endpoints as well
verify_admin_token_acceptsApiKey(authorization) ==
    /\ authorization # <<>>
    /\ authorization[1] = "Bearer "
    /\ \/ bearer_token(authorization) \in active_admin_tokens
       \/ bearer_token(authorization) = api_key

\* verify_admin_token: TRUE when it returns the token, FALSE when it raises
\* HTTPException(401)
verify_admin_token(authorization) ==
    /\ authorization # <<>>
    /\ authorization[1] = "Bearer "
    /\ bearer_token(authorization) \in active_admin_tokens

\* the answer to a request of a protected endpoint; arg is the value the
\* header carried
Answer(name, authorization, code) ==
    [endpoint |-> name, arg |-> bearer_token(authorization), status |-> code]

\* state no session endpoint touches
sessionRest ==
    <<workerVars, req, timeVars, started, admin_ops, credVars, refreshVars,
      poolVars>>

\* AuthManager.verify_admin(username, password)
verify_admin(username, password) ==
    username = admin_username /\ password = admin_password

\* POST /api/admin/login
admin_login(username, password) ==
    /\ verify_admin(username, password) => issued < MaxLogins
    /\ IF verify_admin(username, password)
         THEN /\ issued' = issued + 1
              /\ active_admin_tokens' = active_admin_tokens \cup {issued + 1}
              /\ http' = [endpoint |-> "admin_login", arg |-> issued + 1,
                          status |-> 200]
         ELSE /\ http' = [endpoint |-> "admin_login", arg |-> NoToken,
                          status |-> 401]
              /\ UNCHANGED <<issued, active_admin_tokens>>
    /\ UNCHANGED <<admin_username, admin_password, api_key, sessionRest>>

\* answers the logout and leaves the session set as it was
admin_logout_keepsToken(authorization) ==
    /\ http' = Answer("admin_logout", authorization,
                      IF verify_admin_token(authorization) THEN 200 ELSE 401)
    /\ UNCHANGED <<active_admin_tokens, issued, admin_username, admin_password, api_key,
                   sessionRest>>

\* POST /api/admin/logout
admin_logout(authorization) ==
    /\ IF verify_admin_token(authorization)
         THEN /\ active_admin_tokens' =
                    active_admin_tokens \ {bearer_token(authorization)}
              /\ http' = Answer("admin_logout", authorization, 200)
         ELSE /\ http' = Answer("admin_logout", authorization, 401)
              /\ UNCHANGED active_admin_tokens
    /\ UNCHANGED <<issued, admin_username, admin_password, api_key, sessionRest>>

\* stores the new password and leaves the sessions active
change_password_keepsSessions(authorization, old_password, new_password, username) ==
    /\ IF ~verify_admin_token(authorization)
         THEN /\ http' = Answer("change_password", authorization, 401)
              /\ UNCHANGED <<admin_username, admin_password>>
         ELSE IF ~verify_admin(admin_username, old_password)
         THEN /\ http' = Answer("change_password", authorization, 400)
              /\ UNCHANGED <<admin_username, admin_password>>
         ELSE /\ admin_password' = new_password
              /\ admin_username' =
                    IF username # NoUsername THEN username
                    ELSE admin_username
              /\ http' = Answer("change_password", authorization, 200)
    /\ UNCHANGED <<active_admin_tokens, issued, api_key, sessionRest>>

\* stores the new password without verifying the old one
change_password_unverified(authorization, old_password, new_password, username) ==
    /\ IF ~verify_admin_token(authorization)
         THEN /\ http' = Answer("change_password", authorization, 401)
              /\ UNCHANGED <<admin_username, admin_password,
                             active_admin_tokens>>
         ELSE /\ admin_password' = new_password
              /\ admin_username' =
                    IF username # NoUsername THEN username
                    ELSE admin_username
              /\ active_admin_tokens' = {}
              /\ http' = Answer("change_password", authorization,
                    IF verify_admin(admin_username, old_password)
                      THEN 200 ELSE 400)
    /\ UNCHANGED <<issued, api_key, sessionRest>>

\* POST /api/admin/change-password
change_password(authorization, old_password, new_password, username) ==
    /\ IF ~verify_admin_token(authorization)
         THEN /\ http' = Answer("change_password", authorization, 401)
              /\ UNCHANGED <<admin_username, admin_password,
                             active_admin_tokens>>
         ELSE IF ~verify_admin(admin_username, old_password)
         THEN /\ http' = Answer("change_password", authorization, 400)
              /\ UNCHANGED <<admin_username, admin_password,
                             active_admin_tokens>>
         ELSE /\ admin_password' = new_password
              /\ admin_username' =
                    IF username # NoUsername THEN username
                    ELSE admin_username
              /\ active_admin_tokens' = {}
              /\ http' = Answer("change_password", authorization, 200)
    /\ UNCHANGED <<issued, api_key, sessionRest>>

\* POST /api/admin/apikey
update_api_key(authorization, new_api_key) ==
    /\ IF verify_admin_token(authorization)
         THEN /\ api_key' = new_api_key
              /\ http' = Answer("update_api_key", authorization, 200)
         ELSE /\ http' = Answer("update_api_key", authorization, 401)
              /\ UNCHANGED api_key
    /\ UNCHANGED <<issued, admin_username, admin_password, active_admin_tokens, sessionRest>>

AuthInit ==
    /\ InitRequestPath([w \in Workers |-> TRUE])
    /\ InitCredentials([w \in Workers |-> AtLifetime])
    /\ InitRefresh
    /\ InitPool(Workers, NoToken)
    /\ InitAuth
    /\ has_session = [w \in Workers |-> FALSE]

AuthNext ==
    \/ \E username \in Usernames, password \in Passwords :
            admin_login(username, password)
    \/ \E authorization \in AdminHeaders : admin_logout(authorization)
    \/ \E authorization \in AdminHeaders, old \in Passwords,
          new \in Passwords, username \in NewUsernames :
            change_password(authorization, old, new, username)
    \/ \E authorization \in AdminHeaders, key \in ApiKeys :
            update_api_key(authorization, key)

AuthSpec == AuthInit /\ [][AuthNext]_vars

\* ------------------------------------------------- BrowserCaptchaService
\* The service's coroutines run on the event loop: a step is what a call
\* does from one await that suspends it to the next. `async with cls._lock`
\* does not suspend when the lock is free.

\* state the captcha service does not touch
captchaRest ==
    <<workerVars, req, timeVars, started, admin_ops, credVars, clock,
      has_session, refresh_wake, next_refresh_time, refreshing,
      dispatched_at, scan_errors, thread, cancelled, sweep_errors,
      adminVars>>

\* get_token's target_dir: browser_data, or browser_data_<token_id>
UserDataDirs == {DefaultDir} \cup Workers

\* the caller has no call in progress
Free(c) == call[c].pc \in {"idle", "done"}

\* the call of c ends with the result
Returns(c, op, result) ==
    [call EXCEPT ![c] = [IdleCall EXCEPT !.op = op, !.pc = "done",
                                         !.result = result]]

\* the call of c is suspended at pc
Awaits(c, op, pc, dir) ==
    [call EXCEPT ![c] = [IdleCall EXCEPT !.op = op, !.pc = pc, !.dir = dir]]

\* constructs an instance at every call
NeedsInstance_always == TRUE

\* cls._instance is None
NeedsInstance == service._instance = NoInstance

\* get_instance: the instance, constructed under the lock at the first call;
\* browser_captcha.py's awaits initialize() with the lock held, after
\* cls._instance is assigned
captcha_get_instance(c) ==
    /\ Free(c)
    /\ IF ~NeedsInstance
         THEN /\ call' = [Returns(c, "get_instance", "instance")
                            EXCEPT ![c].inst = service._instance]
              /\ UNCHANGED service
         ELSE /\ service._lock = NoCaller
              /\ LET id == service.constructed + 1
                     made == [service EXCEPT
                                !._instance = id, !.constructed = id,
                                !._initialized = FALSE,
                                !.browser = NoBrowser,
                                !.user_data_dir = DefaultDir]
                 IN  IF service.personal
                       THEN /\ service' = made
                            /\ call' = [Returns(c, "get_instance", "instance")
                                            EXCEPT ![c].inst = id]
                       ELSE /\ service' = [made EXCEPT !._lock = c]
                            /\ call' = [Awaits(c, "get_instance", "launch",
                                               DefaultDir)
                                            EXCEPT ![c].inst = id]
    /\ UNCHANGED captchaRest

\* initialize's early return: self._initialized (and self.context in
\* browser_captcha_personal.py)
Initialized ==
    /\ service._initialized
    /\ service.personal => service.browser # NoBrowser

\* initialize(): returns at once when initialized, else starts playwright
\* and the browser
captcha_initialize(c) ==
    /\ Free(c)
    /\ ~NeedsInstance
    /\ call' = IF Initialized
                 THEN Returns(c, "initialize", "returned")
                 ELSE Awaits(c, "initialize", "launch", DefaultDir)
    /\ UNCHANGED <<service, captchaRest>>

\* os.path.exists(auth_path) in browser_captcha.py's get_token: the module
\* does not import os, the name lookup raises NameError, the except branch
\* returns None before any context is created
NameErrorResult == "None"

\* the await of async_playwright().start() and chromium.launch /
\* launch_persistent_context is over: the browser runs and _initialized is
\* set, or the exception is logged and raised again. The caller goes on:
\* get_instance releases the lock and returns, get_token goes on to its try
\* block
captcha_launch(c, ok) ==
    /\ call[c].pc = "launch"
    /\ LET op == call[c].op
           unlocked == [service EXCEPT
                            !._lock = IF op = "get_instance"
                                        THEN NoCaller ELSE @]
       IN  IF ok
             THEN /\ service' = [unlocked EXCEPT
                                    !.launches = @ + 1,
                                    !.browser = service.launches + 1,
                                    !._initialized = TRUE]
                  /\ call' =
                        IF op = "get_instance"
                          THEN [call EXCEPT ![c].pc = "done",
                                            ![c].result = "instance"]
                        ELSE IF op = "initialize"
                          THEN Returns(c, op, "returned")
                        ELSE IF service.personal
                          THEN Awaits(c, op, "new_page", call[c].dir)
                        ELSE Returns(c, op, NameErrorResult)
             ELSE /\ service' = unlocked
                  /\ call' = Returns(c, op, "raised")
    /\ UNCHANGED captchaRest

\* get_token(project_id, token_id): initialize() first when not initialized
\* (browser_captcha_personal.py: also after close() when the browser runs on
\* another user data directory), then the try block
captcha_get_token(c, dir) ==
    /\ Free(c)
    /\ ~NeedsInstance
    /\ IF ~service.personal
         THEN /\ call' = IF service._initialized
                           THEN Returns(c, "get_token", NameErrorResult)
                           ELSE Awaits(c, "get_token", "launch", DefaultDir)
              /\ UNCHANGED service
         ELSE IF service._initialized /\ service.user_data_dir # dir
           THEN /\ call' = Awaits(c, "get_token", "closing", dir)
                /\ UNCHANGED service
         ELSE IF ~service._initialized
           THEN /\ service' = [service EXCEPT !.user_data_dir = dir]
                /\ call' = Awaits(c, "get_token", "launch", dir)
         ELSE /\ call' = Awaits(c, "get_token",
                                IF service.browser = NoBrowser
                                  THEN "launch" ELSE "new_page", dir)
              /\ UNCHANGED service
    /\ UNCHANGED captchaRest

\* page = await self.context.new_page(): a page is open, or the call raised
\* (no context, or the browser refused) and get_token returns None
captcha_new_page(c, ok) ==
    /\ call[c].pc = "new_page"
    /\ IF ok /\ service.browser # NoBrowser
         THEN /\ service' = [service EXCEPT !.pages = @ \cup {c}]
              /\ call' = [call EXCEPT ![c].pc = "page"]
         ELSE /\ call' = Returns(c, "get_token", "None")
              /\ UNCHANGED service
    /\ UNCHANGED captchaRest

\* what execute gave: a token, null, or an exception on the way
PageOutcomes == {"token", "null", "exception"}

\* goto, the script injection and grecaptcha.execute: return token, return
\* None, or except: return None; the finally block is next
captcha_page(c, outcome) ==
    /\ call[c].pc = "page"
    /\ outcome = "token" => c \in service.pages
    /\ call' = [call EXCEPT
                    ![c].pc = "finally",
                    ![c].result = IF outcome = "token" THEN "token"
                                  ELSE "None"]
    /\ UNCHANGED <<service, captchaRest>>

\* finally: pass
ClosePage_pass(c) == service.pages

\* finally: if page: await page.close()
ClosePage(c) == service.pages \ {c}

\* the finally block is over and get_token returns
captcha_finally(c) ==
    /\ call[c].pc = "finally"
    /\ service' = [service EXCEPT !.pages = ClosePage(c)]
    /\ call' = [call EXCEPT ![c].pc = "done"]
    /\ UNCHANGED captchaRest

\* close(): awaits browser.close() and playwright.stop() when there is a
\* browser, else clears _initialized at once
captcha_close(c) ==
    /\ Free(c)
    /\ ~NeedsInstance
    /\ IF service.browser # NoBrowser
         THEN /\ call' = Awaits(c, "close", "closing", DefaultDir)
              /\ UNCHANGED service
         ELSE /\ service' = [service EXCEPT !._initialized = FALSE,
                                            !.launches = 0]
              /\ call' = Returns(c, "close", "returned")
    /\ UNCHANGED captchaRest

\* the awaits of close() are over: the browser (with its pages) is gone,
\* self.browser / self.context is None and _initialized is False; a
\* get_token that closed to change the directory goes on to initialize()
captcha_closed(c) ==
    /\ call[c].pc = "closing"
    /\ LET closed == [service EXCEPT
                        !.browser = NoBrowser, !._initialized = FALSE,
                        !.launches = 0,
                        !.pages = IF service.personal THEN {} ELSE @]
       IN  IF call[c].op = "close"
             THEN /\ service' = closed
                  /\ call' = Returns(c, "close", "returned")
             ELSE /\ service' = [closed EXCEPT
                                    !.user_data_dir = call[c].dir]
                  /\ call' = [call EXCEPT ![c].pc = "launch"]
    /\ UNCHANGED captchaRest

\* either class, nothing called yet
CaptchaInit ==
    /\ InitRequestPath([w \in Workers |-> TRUE])
    /\ InitCredentials([w \in Workers |-> AtLifetime])
    /\ InitScheduler
    /\ \E personal \in BOOLEAN : InitCaptcha(personal)
    /\ InitPool(Workers, NoToken)
    /\ InitAuth
    /\ has_session = [w \in Workers |-> FALSE]

CaptchaNext ==
    \/ \E c \in Callers : captcha_get_instance(c)
    \/ \E c \in Callers : captcha_initialize(c)
    \/ \E c \in Callers, ok \in BOOLEAN : captcha_launch(c, ok)
    \/ \E c \in Callers, dir \in UserDataDirs : captcha_get_token(c, dir)
    \/ \E c \in Callers, ok \in BOOLEAN : captcha_new_page(c, ok)
    \/ \E c \in Callers, outcome \in PageOutcomes : captcha_page(c, outcome)
    \/ \E c \in Callers : captcha_finally(c)
    \/ \E c \in Callers : captcha_close(c)
    \/ \E c \in Callers : captcha_closed(c)

CaptchaSpec == CaptchaInit /\ [][CaptchaNext]_vars

\* ------------------------------------------------------------ specification
Next ==
    \/ \E r \in Requests, k \in Kinds : Start(r, k)
    \/ \E r \in Requests : SelectStep(r)
    \/ \E r \in Requests : AcquireStep(r)
    \/ \E r \in Requests, o \in Outcomes : ReleaseStep(r, o)
    \/ \E r \in Requests : RecordStep(r)
    \/ \E r \in Requests : Respond(r)
    \/ auto_unban_task
    \/ Tick
    \/ \E w \in Workers, request \in UpdateTokenRequests, st_valid \in BOOLEAN :
            update_token(w, request, st_valid)
    \/ \E w \in Workers : enable_token(w)
    \/ \E w \in Workers : disable_token(w)
    \/ \E w \in Workers, c \in 0..MaxCredits : refresh_credits(w, c)
    \/ \E t \in Thresholds : update_admin_config(t)

Spec == Init /\ [][Next]_vars

TypeOK ==
    /\ is_active \in [Workers -> BOOLEAN]
    /\ kind_enabled \in [Workers -> [Kinds -> BOOLEAN]]
    /\ concurrency \in [Workers -> [Kinds -> Limits]]
    /\ credits \in [Workers -> CreditValues]
    /\ use_count \in [Workers -> 0..MaxStarted]
    /\ error_count \in [Workers -> 0..MaxStarted]
    /\ health \in [Workers -> HealthStates]
    /\ banned_at \in [Workers -> NoBan..MaxTime]
    /\ error_ban_threshold \in Thresholds
    /\ cm_limit \in [Workers -> [Kinds -> Limits]]
    /\ in_flight \in [Workers -> [Kinds -> 0..NumRequests]]
    /\ now \in 0..MaxTime
    /\ started \in 0..MaxStarted
    /\ admin_ops \in 0..MaxAdminOps
    /\ clock \in Nat
    /\ at_expires \in [Workers -> Int]
    /\ db_at_expires \in [Workers -> Int]
    /\ has_session \in [Workers -> BOOLEAN]
    /\ refresh_wake \in Nat
    /\ next_refresh_time \in Int
    /\ refreshing \in [Workers -> Nat]
    /\ dispatched_at \in [Workers -> Int]
    /\ scan_errors \in 0..MaxScanErrors

\* ================================================================== claims
\* request r takes a selection step (LoadBalancer.select returns to it)
SelectionStep(r) ==
    /\ req[r].pc \in {"idle", "select"}
    /\ req'[r].pc \in {"acquire", "rejected"}

\* request r's acquire call returns
AcquireCall(r) ==
    /\ req[r].pc = "acquire"
    /\ req'[r] # req[r]

\* permits held on (w, k): requests between acquire and release
Holders(w, k) ==
    {r \in Requests :
        req[r].pc = "upstream" /\ req[r].worker = w /\ req[r].kind = k}

\* C1: in every reachable state, for every worker and kind, in_flight >= 0
\* and, when the record's limit is >= 0, in_flight <= limit.
C1_InFlightWithinLimit ==
    \A w \in Workers, k \in Kinds :
        /\ in_flight[w][k] >= 0
        /\ concurrency[w][k] >= 0 => in_flight[w][k] <= concurrency[w][k]

\* C2: for a worker with limit[kind] = L > 0, acquire succeeds exactly when
\* fewer than L permits are held and is rejected at once when L are held.
C2_AcquireIffBelowLimit ==
    [][\A r \in Requests :
        AcquireCall(r) /\ concurrency[req[r].worker][req[r].kind] > 0 =>
            (req'[r].pc = "upstream" <=>
                Cardinality(Holders(req[r].worker, req[r].kind))
                    < concurrency[req[r].worker][req[r].kind])]_vars

\* C3: a worker with limit[kind] = -1 never rejects acquire.
C3_UnlimitedNeverRejects ==
    [][\A r \in Requests :
        AcquireCall(r) /\ concurrency[req[r].worker][req[r].kind] = Unlimited =>
            req'[r].pc = "upstream"]_vars

\* C4: a successful acquire followed immediately by release on the same
\* (worker, kind) returns in_flight[kind] to its pre-acquire value and leaves
\* the other kind's counter and every other worker's counters unchanged.
C4_AcquireReleaseRoundTrip ==
    [][\A r \in Requests :
        req[r].pc = "acquire" /\ req'[r].pc = "upstream" =>
            /\ in_flight'[req[r].worker][req[r].kind]
                    = in_flight[req[r].worker][req[r].kind] + 1
            /\ release(in_flight', req[r].worker, req[r].kind) = in_flight]_vars

\* a request has acquired and released a permit on a worker and kind on
\* which another request still holds one
C4_Witness ==
    \E r1 \in Requests, r2 \in Requests, k \in Kinds :
        /\ req[r1].pc = "record"
        /\ req[r2].pc = "upstream"
        /\ req[r2].worker = req[r1].worker
        /\ req[r2].kind = k
        /\ in_flight[req[r2].worker][k] = 1

\* the counter of (worker, kind) equals the number of requests holding a
\* permit on it
C5_CountersMatchHolders ==
    \A w \in Workers, k \in Kinds :
        in_flight[w][k] = Cardinality(Holders(w, k))

\* C5: every successful acquire is paired with exactly one release on every
\* exit path: the counter of (worker, kind) always equals the number of
\* requests holding a permit on it, so with no request in flight every
\* counter is 0; and every request holding a permit eventually releases it.
C5_AcquirePairedWithRelease ==
    /\ []C5_CountersMatchHolders
    /\ \A r \in Requests :
        [](req[r].pc = "upstream" => <>(req[r].pc # "upstream"))

\* every permit taken has been given back after requests ran
C5_Witness ==
    /\ started = MaxStarted
    /\ \A r \in Requests : req[r].pc = "idle"
    /\ \A w \in Workers, k \in Kinds : in_flight[w][k] = 0

\* the request path, the sweep, and the admin requests that change, while
\* a permit is held, what its worker's selection and limit depend on
FairNext ==
    \/ \E r \in Requests, k \in Kinds : Start(r, k)
    \/ \E r \in Requests : SelectStep(r)
    \/ \E r \in Requests : AcquireStep(r)
    \/ \E r \in Requests, o \in Outcomes : ReleaseStep(r, o)
    \/ \E r \in Requests : RecordStep(r)
    \/ \E r \in Requests : Respond(r)
    \/ auto_unban_task
    \/ Tick
    \/ \E w \in Workers, l \in Limits :
            update_token(w, [video_concurrency |-> l], TRUE)
    \/ \E w \in Workers : enable_token(w)
    \/ \E w \in Workers : disable_token(w)

\* the upstream call returns or times out (section 5), and the event loop
\* runs the request's coroutine on
FairSpec ==
    /\ Init
    /\ [][FairNext]_vars
    /\ \A r \in Requests : WF_vars(\E o \in Outcomes : ReleaseStep(r, o))

\* C6: a worker returned by select(kind) is eligible for kind at the moment
\* of selection: enabled, capable of kind, not banned, limit # 0, limit < 0
\* or in_flight < limit, and credit balance > 0 or unknown.
C6_SelectedIsEligible ==
    [][\A r \in Requests :
        SelectionStep(r) /\ req'[r].pc = "acquire" =>
            LET w == req'[r].worker
                k == req'[r].kind
            IN /\ w \in Workers
               /\ is_active[w]
               /\ kind_enabled[w][k]
               /\ health[w] \notin {"ErrorBanned", "RateLimited"}
               /\ concurrency[w][k] # 0
               /\ (concurrency[w][k] < 0 \/ in_flight[w][k] < concurrency[w][k])
               /\ (credits[w] > 0 \/ credits[w] = UnknownCredits)]_vars

\* a worker was selected while another worker was not eligible
C6_Witness ==
    \E r \in Requests, v \in Workers :
        /\ req[r].pc = "acquire"
        /\ v # req[r].worker
        /\ ~Eligible(v, req[r].kind)
        /\ Eligible(req[r].worker, req[r].kind)

\* every worker is disabled, banned or at capacity for kind k
C7_NoneAvailable(k) ==
    \A w \in Workers :
        \/ ~is_active[w]
        \/ health[w] # "Healthy"
        \/ concurrency[w][k] >= 0 /\ in_flight[w][k] >= concurrency[w][k]

\* C7: when every worker is disabled, banned or at capacity for the kind,
\* select(kind) returns the ordinary result NoEligibleWorker and changes no
\* worker state.
C7_NoEligibleWorkerIsAResult ==
    [][\A r \in Requests :
        SelectionStep(r) /\ C7_NoneAvailable(req'[r].kind) =>
            /\ req'[r].pc = "rejected"
            /\ req'[r].worker = NoWorker
            /\ UNCHANGED workerVars]_vars

\* NoEligibleWorker was returned with one worker disabled, one at capacity
C7_Witness ==
    \E r \in Requests, a \in Workers, b \in Workers :
        /\ req[r].pc = "rejected"
        /\ C7_NoneAvailable(req[r].kind)
        /\ ~is_active[a]
        /\ is_active[b] /\ health[b] = "Healthy"
        /\ concurrency[b][req[r].kind] > 0
        /\ in_flight[b][req[r].kind] = concurrency[b][req[r].kind]

\* C8: among the workers eligible for kind, select(kind) returns one whose
\* load ratio in_flight/limit (0 for an unlimited worker) is minimal.
C8_SelectedHasMinimalLoad ==
    [][\A r \in Requests :
        SelectionStep(r) /\ req'[r].pc = "acquire" =>
            LET w == req'[r].worker
                k == req'[r].kind
                num(x) == IF concurrency[x][k] < 0 THEN 0 ELSE in_flight[x][k]
                den(x) == IF concurrency[x][k] < 0 THEN 1 ELSE concurrency[x][k]
            IN \A v \in Workers :
                Eligible(v, k) => num(w) * den(v) <= num(v) * den(w)]_vars

\* with two eligible workers at 0/2 and 1/2 the 0/2 worker was returned
C8_Witness ==
    \E r \in Requests, v \in Workers :
        LET w == req[r].worker
            k == req[r].kind
        IN /\ req[r].pc = "acquire"
           /\ v # w
           /\ Eligible(w, k) /\ Eligible(v, k)
           /\ concurrency[w][k] = 2 /\ in_flight[w][k] = 0
           /\ concurrency[v][k] = 2 /\ in_flight[v][k] = 1

\* request r's outcome is recorded on its worker
RecordCall(r) ==
    /\ req[r].pc = "record"
    /\ req'[r].pc = "idle"

\* some request records outcome o on worker w in this step
Recorded(w, o) ==
    \E r \in Requests :
        RecordCall(r) /\ req[r].worker = w /\ req[r].outcome = o

\* C9: the error counter counts the failed (non-rate-limit) outcomes
\* recorded on a worker since the last success: a success resets it to 0, a
\* failure on a healthy worker adds one, nothing else raises it; the failure
\* that brings it to the threshold bans the worker, no other step error-bans
\* a worker, and a banned worker is excluded by select(kind).
C9_BannedAtThresholdFailures ==
    [][\A w \in Workers :
        /\ Recorded(w, "success") => error_count'[w] = 0
        /\ error_count'[w] > error_count[w] =>
                /\ Recorded(w, "error")
                /\ error_count'[w] = error_count[w] + 1
        /\ Recorded(w, "error") /\ health[w] = "Healthy" =>
                /\ error_count'[w] = error_count[w] + 1
                /\ error_count'[w] >= error_ban_threshold
                        => health'[w] = "ErrorBanned"
        /\ health[w] # "ErrorBanned" /\ health'[w] = "ErrorBanned" =>
                /\ Recorded(w, "error")
                /\ error_count'[w] >= error_ban_threshold
        /\ health'[w] = "ErrorBanned" =>
                \A k \in Kinds : w \notin select(k)']_vars

\* a worker was banned by two failures in a row after an earlier success
C9_Witness ==
    \E w \in Workers :
        /\ health[w] = "ErrorBanned"
        /\ error_ban_threshold = 2
        /\ error_count[w] = 2
        /\ use_count[w] = 1

\* C10: a worker marked RateLimited at time T is excluded from selection at
\* every time before T + 60 min; only the hourly sweep lifts the ban, and
\* only when the ban's age is >= 1 hour, after which the worker is healthy
\* again with its error counter cleared.
C10_RateLimitedForAnHour ==
    [][\A w \in Workers :
        /\ banned_at'[w] # NoBan /\ now' - banned_at'[w] < BanAge =>
                health'[w] = "RateLimited"
        /\ health'[w] = "RateLimited" => \A k \in Kinds : w \notin select(k)'
        /\ health[w] = "RateLimited" /\ health'[w] # "RateLimited" =>
                /\ sweep_wake' # sweep_wake
                /\ now - banned_at[w] >= BanAge
                /\ health'[w] = "Healthy"
                /\ error_count'[w] = 0
        /\ sweep_wake' # sweep_wake /\ health[w] = "RateLimited"
            /\ now - banned_at[w] >= BanAge => health'[w] = "Healthy"
        /\ health[w] # "RateLimited" /\ health'[w] = "RateLimited" =>
                /\ Recorded(w, "ratelimit")
                /\ banned_at'[w] = now]_vars

\* a worker banned between two sweeps stayed banned through the sweep that
\* fired less than an hour later and was un-banned by the one after it
C10_Witness ==
    \E w \in Workers :
        /\ banned_at[w] # NoBan
        /\ banned_at[w] % SweepSleep # 0
        /\ health[w] = "Healthy"
        /\ now - banned_at[w] > BanAge

\* C11: a worker leaves ErrorBanned for Healthy only in a step of the
\* administrator's enable_token on that worker; a run of the hourly sweep
\* leaves every ErrorBanned worker ErrorBanned and out of every selection.
C11_ErrorBanLiftedByAdminOnly ==
    [][\A w \in Workers :
        /\ health[w] = "ErrorBanned" /\ health'[w] = "Healthy" =>
                /\ admin_ops' = admin_ops + 1
                /\ is_active'[w]
                /\ sweep_wake' = sweep_wake
        /\ health[w] = "ErrorBanned" /\ sweep_wake' # sweep_wake =>
                /\ health'[w] = "ErrorBanned"
                /\ \A k \in Kinds : w \notin select(k)']_vars

\* the hourly sweep is due, not for the first time, while a worker is
\* ErrorBanned: it is the only step by which time can move on
C11_Witness ==
    \E w \in Workers :
        /\ health[w] = "ErrorBanned"
        /\ now >= sweep_wake
        /\ sweep_wake > SweepSleep

\* a pass of the refresh task's loop that scanned the pool
ScanPass ==
    /\ refresh_wake' # refresh_wake
    /\ scan_errors' = scan_errors

\* the workers a scan tracks: enabled, expiry known, not due yet
Tracked == {w \in Workers :
    /\ is_active[w]
    /\ at_expires[w] # NoExpiry
    /\ at_expires[w] - clock > RefreshBuffer}

\* the workers due for refresh: enabled, expiry known and within the buffer
Due == {w \in Workers :
    /\ is_active[w]
    /\ at_expires[w] # NoExpiry
    /\ at_expires[w] - clock <= RefreshBuffer}

\* C12: the next-wake time a scan computes is min(expiry) - refreshBuffer
\* over the tracked workers (none when no worker is tracked), whatever the
\* pool holds and in whatever order the workers are scanned.
C12_NextWakeIsMinExpiry ==
    [][ScanPass =>
        IF Tracked = {} THEN next_refresh_time' = NoTime
        ELSE \E w \in Tracked :
                /\ \A v \in Tracked : at_expires[w] <= at_expires[v]
                /\ next_refresh_time' = at_expires[w] - RefreshBuffer]_vars

\* C13: when an admin request gives a worker, while the refresh task
\* sleeps, an expiry E' sooner than the minimum over the tracked workers,
\* the task's next scan comes no later than E' - refreshBuffer, or the
\* minimum sleep from now.
C13_SoonerExpiryShortensWake ==
    [][\A w \in Workers :
        /\ admin_ops' # admin_ops
        /\ clock < refresh_wake
        /\ is_active[w]
        /\ at_expires'[w] # at_expires[w]
        /\ Tracked # {}
        /\ \A v \in Tracked : at_expires'[w] < at_expires[v]
        => refresh_wake' <= Max(at_expires'[w] - RefreshBuffer,
                                clock + MinSleep)]_vars

\* a refresh thread is started for worker w in this step
Dispatched(w) ==
    /\ refreshing'[w] = refreshing[w] + 1
    /\ dispatched_at'[w] >= clock

\* C14: in a scan, a due worker (enabled, expiry known, time until expiry
\* <= refreshBuffer, expired included) gets a refresh thread if and only if
\* a cached session exists for it; without one no thread is started for it.
\* No thread is started for a worker that is not due.
C14_DueDispatchedIffSession ==
    [][ScanPass =>
        \A w \in Workers :
            /\ w \in Due => (Dispatched(w) <=> has_session[w])
            /\ w \in Due /\ ~has_session[w] =>
                    /\ refreshing'[w] = refreshing[w]
                    /\ dispatched_at'[w] = dispatched_at[w]
            /\ w \notin Due => refreshing'[w] = refreshing[w]]_vars

\* a scan has started a thread for a due worker that has a session and
\* skipped an expired one that has none
C14_Witness ==
    \E w, v \in Workers :
        /\ w \in Due /\ has_session[w] /\ dispatched_at[w] # NoTime
        /\ refreshing[w] > 0
        /\ v \in Due /\ ~has_session[v] /\ dispatched_at[v] = NoTime
        /\ at_expires[v] < clock
        /\ clock < refresh_wake

\* a refresh thread of worker w ends in this step
RefreshEnds(w) == refreshing'[w] = refreshing[w] - 1

\* C15: the end of a refresh thread, whatever it obtained (no new st, st
\* but no at, an exception), leaves every worker in the pool with the
\* enabled flag, the health state, the ban time and the error counter it
\* had.
C15_RefreshFailureKeepsWorker ==
    [][\A w \in Workers :
        RefreshEnds(w) =>
            /\ DOMAIN is_active' = Workers
            /\ is_active' = is_active
            /\ health' = health
            /\ banned_at' = banned_at
            /\ error_count' = error_count]_vars

\* refresh threads of an enabled worker have ended, one without a new st
\* and one whose new st could not be exchanged, and the worker is enabled
C15_Witness ==
    \E w, v \in Workers :
        /\ is_active[w] /\ health[w] = "Healthy"
        /\ dispatched_at[w] # NoTime /\ refreshing[w] = 0
        /\ db_st[w] = st[w] /\ db_at[w] = at[w]
        /\ is_active[v] /\ health[v] = "Healthy"
        /\ dispatched_at[v] # NoTime /\ refreshing[v] = 0
        /\ db_st[v] # st[v] /\ db_at[v] = at[v]

\* C16: a worker whose refresh failed and that is still due gets its next
\* refresh thread no sooner than the fallback interval after the previous
\* one, whatever the expiries of the other workers.
C16_FailedRefreshWaitsFallback ==
    [][\A w \in Workers :
        /\ ScanPass
        /\ Dispatched(w)
        /\ dispatched_at[w] # NoTime
        /\ refreshing[w] = 0
        /\ db_at[w] = at[w]
        => dispatched_at'[w] - dispatched_at[w] >= FallbackSleep]_vars

\* the records of the pool: the worker set and every field of every record
Records == <<present, email, recordVars, healthVars, credVars>>

\* C17: an add or an update whose refresh credential the identity exchange
\* rejects leaves the worker set and every field of every record as they
\* were; the add is answered with an error status.
C17_RejectedCredentialChangesNothing ==
    [][/\ add_token(InvalidSt) =>
            /\ http'.status \in {400, 500}
            /\ UNCHANGED Records
       /\ \A w \in present :
            update_token(w, CredentialsOnly, FALSE) => UNCHANGED Records]_vars

\* an update and then an add, both with a rejected credential, have been
\* answered and the pool's records are the ones it started with
C17_Witness ==
    /\ http.endpoint = "add_token"
    /\ http.arg = InvalidSt
    /\ http.status \in {400, 500}
    /\ present # {}
    /\ \A w \in present : st[w] = 0 /\ email[w] = w
    /\ admin_ops = 1

C19_MemoryMirrorsStore ==
    \A w \in present :
        /\ st[w] = db_st[w]
        /\ at[w] = db_at[w]
        /\ at_expires[w] = db_at_expires[w]

\* the headers the claim lets through: "Bearer " followed by a value of the
\* active session set
Admitted == {<<"Bearer ", t>> : t \in active_admin_tokens}

\* a step of a protected endpoint with the header h
ProtectedCall(h) ==
    \/ admin_logout(h)
    \/ \E old \in Passwords, new \in Passwords,
          username \in NewUsernames :
            change_password(h, old, new, username)
    \/ \E key \in ApiKeys : update_api_key(h, key)

\* everything but the answer
ExceptHttp ==
    <<active_admin_tokens, issued, admin_username, admin_password, api_key, sessionRest>>

\* C20: a protected admin endpoint processes a request iff its header is
\* "Bearer " followed by a value of the active session set; any other
\* request (no header, another prefix, the API key, an unknown value) is
\* answered 401 and changes nothing; a value enters the set only by a login
\* with the valid password.
C20_AdminSessionGate ==
    [][/\ \A h \in AdminHeaders :
            ProtectedCall(h) =>
                IF h \in Admitted
                  THEN http'.status # 401
                  ELSE http'.status = 401 /\ UNCHANGED ExceptHttp
       /\ \A t \in active_admin_tokens' \ active_admin_tokens :
            /\ admin_login(admin_username, admin_password)
            /\ http'.status = 200
            /\ http'.arg = t]_vars

\* with a session active, the API key was presented to the API key endpoint
\* and the request was refused
C20_Witness ==
    /\ http = [endpoint |-> "update_api_key", arg |-> api_key,
               status |-> 401]
    /\ active_admin_tokens # {}
    /\ issued = 2

\* the session values issued so far
Issued == 1..issued

\* C21: a logout takes the presented session value out of the active set
\* and leaves every other active value in it; a value that has left the set
\* is refused by verify_admin_token from then on, and the other values are
\* still accepted right after the logout.
C21_LogoutInvalidatesPresented ==
    [][/\ \A h \in Admitted :
            admin_logout(h) =>
                /\ ~verify_admin_token(h)'
                /\ \A g \in Admitted \ {h} : verify_admin_token(g)'
       /\ \A t \in Issued \ active_admin_tokens :
            ~verify_admin_token(<<"Bearer ", t>>)']_vars

\* of two sessions, one has logged out and the other is still active
C21_Witness ==
    /\ http.endpoint = "admin_logout"
    /\ http.status = 200
    /\ http.arg \in Issued \ active_admin_tokens
    /\ active_admin_tokens # {}

\* C22: after a password change that succeeded, every session value issued
\* so far, the one that made the change included, is refused; a refused
\* value stays refused, so only the value of a later login is accepted.
C22_PasswordChangeInvalidatesAll ==
    [][/\ \A h \in AdminHeaders, old \in Passwords, new \in Passwords,
             username \in NewUsernames :
            change_password(h, old, new, username) /\ http'.status = 200 =>
                \A t \in Issued : ~verify_admin_token(<<"Bearer ", t>>)'
       /\ \A t \in Issued \ active_admin_tokens :
            t \notin active_admin_tokens']_vars

\* two sessions have been issued and one of them has changed the password
C22_Witness ==
    /\ http.endpoint = "change_password"
    /\ http.status = 200
    /\ http.arg \in Issued
    /\ issued = 2
    /\ active_admin_tokens = {}

\* the headers that present the configured connection token, with or
\* without the "Bearer " prefix; none when no token is configured
PresentsConnectionToken ==
    IF connection_token = NoToken THEN {}
    ELSE {<<p, connection_token>> : p \in {"Bearer ", ""}}

\* C23: a plugin request whose header does not present the configured,
\* non-empty connection token is answered 401 whatever its session token,
\* goes no further and changes no record; a plugin request gets to add or
\* update a record only from a header that presented the connection token.
C23_PluginNeedsConnectionToken ==
    [][/\ \A h \in PluginHeaders, s \in SessionTokens :
            plugin_update_token(h, s) =>
                /\ UNCHANGED Records
                /\ IF h \in PresentsConnectionToken
                     THEN http'.status # 401
                     ELSE http'.status = 401 /\ plugin_req' = IdlePlugin
       /\ plugin_req'.pc = "act" /\ plugin_req.pc # "act" =>
            \E h \in PresentsConnectionToken, s \in SessionTokens :
                plugin_update_token(h, s)
       /\ PluginAct => plugin_req.pc = "act"]_vars

\* no connection token is configured and a request without a header has
\* been refused; the pool is the one it started from
C23_Witness ==
    /\ connection_token = NoToken
    /\ http = [endpoint |-> "plugin_update_token", arg |-> NoToken,
               status |-> 401]
    /\ plugin_req = IdlePlugin
    /\ calls = 1

\* the workers a scan skips: disabled, or access-credential expiry unknown
Skipped == {w \in Workers : ~is_active[w] \/ at_expires[w] = NoExpiry}

\* C24: a scan starts no refresh thread for a worker that is disabled or
\* whose expiry is unknown, and the next refresh time it computes comes
\* from a tracked worker's expiry, never from a skipped worker's: with no
\* tracked worker there is none and the task sleeps the fallback interval.
C24_SkippedWorkersIgnored ==
    [][ScanPass =>
        /\ \A w \in Skipped :
                /\ refreshing'[w] = refreshing[w]
                /\ dispatched_at'[w] = dispatched_at[w]
        /\ \/ next_refresh_time' = NoTime
           \/ \E v \in Tracked :
                next_refresh_time' = at_expires[v] - RefreshBuffer
        /\ Tracked = {} => refresh_wake' = clock' + FallbackSleep]_vars

\* a scan has run over a pool with a disabled worker that is past its
\* expiry and has a cached session, and a worker of unknown expiry: no
\* thread was started and the task sleeps the fallback interval
C24_Witness ==
    \E w, v \in Workers :
        /\ ~is_active[w] /\ at_expires[w] = 0 /\ has_session[w]
        /\ at_expires[v] = NoExpiry /\ is_active[v]
        /\ dispatched_at[w] = NoTime /\ dispatched_at[v] = NoTime
        /\ refresh_wake = clock + FallbackSleep
        /\ refresh_wake > FallbackSleep

\* the workers whose expiry is known
KnownExpiry == {w \in Workers : is_active[w] /\ at_expires[w] # NoExpiry}

\* min(expiry) - refreshBuffer over the tracked workers
NextWake ==
    LET w == CHOOSE w \in Tracked :
                \A v \in Tracked : at_expires[w] <= at_expires[v]
    IN at_expires[w] - RefreshBuffer

\* C25: after a scan the task sleeps max(minimum sleep, nextWake - now)
\* when some worker is tracked, nextWake being min(expiry) - refreshBuffer
\* over the tracked workers, and the fallback interval when no worker has a
\* known expiry; the next scan is never less than the minimum sleep away.
C25_SleepIsFlooredNextWake ==
    [][ScanPass =>
        /\ Tracked # {} =>
                refresh_wake' = clock' + Max(MinSleep, NextWake - clock')
        /\ KnownExpiry = {} => refresh_wake' = clock' + FallbackSleep
        /\ refresh_wake' - clock' >= MinSleep]_vars

\* C26: the refresh threads of one scan are started one after another, the
\* stagger delay apart: any two threads started by the same scan are at
\* least the delay apart, and the delay has elapsed after the last one
\* before the scan goes to sleep.
C26_DispatchesAreStaggered ==
    [][ScanPass =>
        \A w \in Workers :
            Dispatched(w) =>
                /\ clock' >= dispatched_at'[w] + DispatchDelay
                /\ \A v \in Workers \ {w} :
                        Dispatched(v) =>
                            \/ dispatched_at'[v] >= dispatched_at'[w]
                                                        + DispatchDelay
                            \/ dispatched_at'[w] >= dispatched_at'[v]
                                                        + DispatchDelay]_vars

\* one scan has started a thread for each of two workers, the second one
\* the stagger delay after the first, and then gone to sleep
C26_Witness ==
    \E w, v \in Workers :
        /\ refreshing[w] = 1 /\ refreshing[v] = 1
        /\ dispatched_at[w] # NoTime
        /\ dispatched_at[v] = dispatched_at[w] + DispatchDelay
        /\ clock = dispatched_at[v] + DispatchDelay

\* the refresh thread is running
Running == thread.pc \notin {"idle", "done"}

SweepFires == sweep_wake' # sweep_wake

\* what the refresh task and its threads write
schedulerVars ==
    <<clock, refresh_wake, next_refresh_time, refreshing, dispatched_at,
      scan_errors>>

\* C28: the sweep has one timer. It fires when its hour is over and is set
\* an hour ahead again, also by a sweep that raises, which leaves the task
\* running; a step of the refresh task or of a refresh thread leaves the
\* sweep's time and timer alone, and a sweep leaves the refresh task's.
C28_SweepTimerRecursIndependently ==
    [][/\ SweepFires =>
            /\ now = sweep_wake
            /\ sweep_wake' = now + SweepSleep
            /\ ~cancelled'
            /\ UNCHANGED schedulerVars
       /\ sweep_errors' # sweep_errors => SweepFires
       /\ schedulerVars' # schedulerVars => UNCHANGED timeVars]_vars

\* the sweep has fired twice, an hour apart, and one of the two raised;
\* meanwhile a scan of the refresh task raised and another started a thread
C28_Witness ==
    /\ sweep_errors = 1
    /\ sweep_wake = 3 * SweepSleep
    /\ scan_errors = 1
    /\ \E w \in Workers : dispatched_at[w] # NoTime
    /\ ~cancelled

\* C29: the refresh task's loop survives a scan that raises: it sleeps 5
\* minutes and is then ready to scan again. It stops only by the shutdown's
\* cancellation, after which it neither scans nor starts a thread; until
\* then a scan is possible whenever its sleep is over.
C29_SchedulerRunsUntilCancelled ==
    [][/\ scan_errors' # scan_errors =>
            /\ refresh_wake' = clock + ErrorSleep
            /\ ~cancelled'
       /\ cancelled' /\ ~cancelled => shutdown
       /\ cancelled =>
            /\ cancelled'
            /\ refresh_wake' = refresh_wake
            /\ scan_errors' = scan_errors
            /\ dispatched_at' = dispatched_at
            /\ \A w \in Workers : refreshing'[w] <= refreshing[w]
       /\ ~cancelled /\ clock >= refresh_wake /\ clock <= MaxClock =>
            ENABLED (\E order \in ScanOrders :
                        auto_st_refresh_task(order))]_vars

\* the first scan raised, the scan 5 minutes later started a thread, and
\* the task was cancelled: its sleep is over and it does not scan
C29_Witness ==
    /\ cancelled
    /\ scan_errors = 1
    /\ \E w \in Workers : dispatched_at[w] = ErrorSleep
    /\ clock >= refresh_wake

\* C30: a scan starts no refresh thread for a worker whose earlier thread
\* has not finished. Stated for an earlier thread that started no longer
\* ago than a thread's own waits can last, so that the earlier thread can
\* indeed still be running.
C30_OneRefreshPerWorker ==
    [][\A w \in Workers :
        /\ ScanPass
        /\ Dispatched(w)
        /\ dispatched_at[w] # NoTime
        /\ clock - dispatched_at[w] <= Budget
        => refreshing[w] = 0]_vars

\* C31: a refresh thread that obtained a new refresh credential and whose
\* exchange then failed has stored the new refresh credential and left the
\* access credential and its expiry, persisted and in memory, as they were;
\* a worker that was due is still due.
C31_FailedExchangeKeepsAccessCredential ==
    [][\A w \in Workers :
        RefreshEnds(w) /\ db_st'[w] # db_st[w] /\ db_at'[w] = db_at[w] =>
            /\ db_st'[w] > db_st[w]
            /\ db_at_expires' = db_at_expires
            /\ at' = at
            /\ at_expires' = at_expires
            /\ w \in Due => (w \in Due)']_vars

\* a due worker's thread stored a new refresh credential without a new
\* access credential, and the refresh task's sleep is over
C31_Witness ==
    \E w \in Due :
        /\ has_session[w]
        /\ dispatched_at[w] # NoTime /\ refreshing[w] = 0
        /\ db_st[w] > st[w]
        /\ db_at[w] = at[w]
        /\ db_at_expires[w] = at_expires[w]
        /\ clock >= refresh_wake
        /\ clock > 0

\* C32: the limit the controller applies to a worker and kind is the limit
\* in the worker's record, also after the record's limit was edited while
\* the server runs.
C32_ControllerLimitMatchesRecord ==
    \A w \in Workers, k \in Kinds : cm_limit[w][k] = concurrency[w][k]

\* C33: in a batch import every item is counted in exactly one of added,
\* updated and errors, and an item that is reported in errors leaves the
\* worker set and every record as they were before the item.
C33_ErrorItemLeavesPool ==
    [][/\ import_req'.added + import_req'.updated + import_req'.errors
            + Len(import_req'.items) = import_req'.n
       /\ import_req'.errors = import_req.errors + 1 =>
            UNCHANGED Records]_vars

\* C34: a password change whose old password does not verify is answered
\* 400 and changes nothing: the stored username and password are as before
\* and every active admin session token is still accepted.
C34_WrongOldPasswordChangesNothing ==
    [][\A h \in Admitted, old \in Passwords \ {admin_password},
          new \in Passwords, username \in NewUsernames :
            change_password(h, old, new, username) =>
                /\ http'.status = 400
                /\ UNCHANGED <<admin_username, admin_password>>
                /\ \A t \in active_admin_tokens :
                        verify_admin_token(<<"Bearer ", t>>)']_vars

\* with two sessions active, one of them asked for a password change with a
\* wrong old password and was refused; both sessions are still active
C34_Witness ==
    /\ http.endpoint = "change_password"
    /\ http.status = 400
    /\ http.arg \in active_admin_tokens
    /\ Cardinality(active_admin_tokens) = 2
    /\ admin_password = 1 /\ admin_username = 1

\* C35: under any interleaving of get_instance calls exactly one instance
\* is ever constructed, and every call that returns returns that instance.
C35_OneInstance ==
    /\ service.constructed <= 1
    /\ \A c \in Callers :
            call[c].op = "get_instance" /\ call[c].pc = "done"
                    /\ call[c].result = "instance" =>
                /\ call[c].inst = service._instance
                /\ call[c].inst = 1

\* both callers' get_instance calls have returned, the second one made while
\* the first was still starting the browser
C35_Witness ==
    /\ \A c \in Callers :
            /\ call[c].op = "get_instance"
            /\ call[c].pc = "done"
            /\ call[c].result = "instance"
    /\ service.constructed = 1
    /\ service.launches = 1

\* C36: the service launches at most one browser between two close()
\* calls, under any interleaving of get_instance, initialize and get_token,
\* also after a failed initialization and after a close.
C36_OneBrowserBetweenCloses == service.launches <= 1

\* C37: get_token ends with a token or None; no exception reaches its
\* caller, a browser start failure included.
C37_GetTokenNeverRaises ==
    \A c \in Callers :
        call[c].op = "get_token" /\ call[c].pc = "done" =>
            call[c].result \in {"token", "None"}

====
